---- MODULE Spec2Model ----
(***************************************************************************)
(* Quota metering core of the API gateway: the policy store, the quota     *)
(* ledger and the decision engine (internal/quota/manager.go, types.go,    *)
(* pricing.go, internal/config/api_key_config.go) and the persistence      *)
(* controller of the quota ledger (quota persistence.go).                  *)
(*                                                                         *)
(* Representation notes.                                                   *)
(*  - Money is counted in the unit "price x token": CalculateCost divides  *)
(*    by 1,000,000, which here is the unit of the cost counters and of     *)
(*    MaxCostUSD; float64 rounding is not represented.                     *)
(*  - Time is an integer instant; a calendar day has DayLen instants.      *)
(*  - A *QuotaUsage pointer held by a reader is either Nil, Live (it is    *)
(*    the object the usage map holds for that key, so reads go to the      *)
(*    map's row) or Detached (the map entry was deleted or replaced while  *)
(*    the reader held the pointer; nobody can reach the object any more,   *)
(*    so its fields are frozen at the values they had).                    *)
(*  - A sync.Mutex / RWMutex critical section that is a single read or a   *)
(*    single assignment is one atomic step guarded by the lock being       *)
(*    free; UpdateUsage holds Manager.mu over several steps.               *)
(***************************************************************************)
EXTENDS Integers, Sequences, FiniteSets, TLC

\* ------------------------------------------------------------------ bounds
QuotaRequests == 1   \* requests a row may count, decision-engine runs
LedgerRequests == 2  \* requests a row may count, ledger runs
SnapshotRequests == 2 \* requests a row may count, snapshot-file runs
RequestRequests == 2  \* requests a row may count, request-pipeline runs
RoundTripRequests == 2 \* requests a row may count, round-trip runs
LoadRequests == 1      \* requests a row may count, load runs
ResetRequests == 1     \* requests a row may count, reset runs
CopyRequests == 1      \* requests a row may count, runs with returned maps
MaxDay == 3            \* the last day an expires_at date names
MaxOffset == 1         \* the largest distance of local time from UTC, in time units
YearDays == 2          \* the days that stand for a year
PricingRequests == 1   \* requests a row may count, pricing runs
ReaderRequests == 1    \* requests a row may count, runs of the readers
SequentialRequests == 1 \* requests a row may count, runs without overlap
MergeRequests == 1     \* requests a row may count, merge runs
PointerRequests == 2   \* requests a row may count, pointer runs
MantBits == 6          \* significant bits of a floating-point value (53 in float64)
CostTokens == 2        \* the most tokens of one kind in a priced call
DayLen == 2          \* instants per calendar day (24h in the source)
LimitTokens == 1     \* the MaxTokens value of the policies that set one
LimitCost == 1       \* the MaxCostUSD value of the policies that set one
ExpiryInstant == 0   \* the instant named by the policies that expire
MaxTime == ExpiryInstant + 1   \* the clock runs over 0..MaxTime

ZeroTime == -1       \* time.Time{}: what ParsedExpiresAt returns for "no expiry"

Keys == {"k1", "k2"}
Models == {"m1", "m2"}
Checkers == {"c1"}
Updaters == {"u1", "u2"}
Admins == {"a1", "a2"}
GoIds == {"g1", "g2"}
Savers == Admins \cup GoIds

\* A nil pointer / absent map entry, and optional integers (*int64, *float64).
Nil == [nil |-> TRUE]
None == [set |-> FALSE, v |-> 0]
Some(n) == [set |-> TRUE, v |-> n]

\* ------------------------------------------------------------ config.APIKeyPolicy
\* ExpiresAt is a string in the source; its four shapes are kept apart by fmt.
NoExpiry == [fmt |-> "empty", v |-> 0]
BadExpiry == [fmt |-> "invalid", v |-> 0]
RFCExpiry(t) == [fmt |-> "rfc3339", v |-> t]
DateExpiry(d) == [fmt |-> "date", v |-> d]

ParsedExpiresAt(p) ==
  IF p = Nil \/ p.expiresAt.fmt = "empty" THEN ZeroTime
  ELSE IF p.expiresAt.fmt = "rfc3339" THEN p.expiresAt.v
  ELSE IF p.expiresAt.fmt = "date" THEN p.expiresAt.v * DayLen + (DayLen - 1)
  ELSE ZeroTime

HasModelRestriction(p) == p # Nil /\ Len(p.allowedModels) > 0
HasTokenLimit(p) == p # Nil /\ p.maxTokens > 0
HasCostLimit(p) == p # Nil /\ p.maxCostUSD > 0
HasExpiration(p) == p # Nil /\ p.expiresAt.fmt # "empty"

\* An IsExpired without the IsZero test: the zero time lies before every instant.
IsExpired_ZeroIsPast(p, t) ==
  IF ~HasExpiration(p) THEN FALSE
  ELSE t > ParsedExpiresAt(p)

IsExpired(p, t) ==
  IF ~HasExpiration(p) THEN FALSE
  ELSE IF ParsedExpiresAt(p) = ZeroTime THEN FALSE
  ELSE t > ParsedExpiresAt(p)

\* strings.ToLower on the model names in use.
ToLower(s) == IF s = "M1" THEN "m1" ELSE s

IsModelAllowed_FoldCase(p, model) ==
  IF ~HasModelRestriction(p) THEN TRUE
  ELSE \E i \in 1..Len(p.allowedModels) : ToLower(p.allowedModels[i]) = ToLower(model)

\* A range over AllowedModels with the == of strings, which compares bytes.
IsModelAllowed(p, model) ==
  IF ~HasModelRestriction(p) THEN TRUE
  ELSE \E i \in 1..Len(p.allowedModels) : p.allowedModels[i] = model

\* The policies that only expire: no expires_at, one that does not parse, a date.
ExpiryPolicies ==
  {[allowedModels |-> <<>>, maxTokens |-> 0, maxCostUSD |-> 0, expiresAt |-> e] :
     e \in {NoExpiry, BadExpiry} \cup {DateExpiry(d) : d \in 0..MaxDay}}

\* The instants of the days 0..MaxDay + 1, counted from 0:00 UTC of day 0.
Instants == 0..((MaxDay + 2) * DayLen - 1)

\* The calendar day of instant t on the clocks of a zone o units ahead of UTC.
LocalDay(t, o) == (t + o) \div DayLen

\* The policies a configuration file may give a key: every restriction at once,
\* and each budget alone.
PolicySet ==
  {[allowedModels |-> <<"m1">>, maxTokens |-> LimitTokens, maxCostUSD |-> LimitCost,
    expiresAt |-> RFCExpiry(ExpiryInstant)],
   [allowedModels |-> <<>>, maxTokens |-> LimitTokens, maxCostUSD |-> 0,
    expiresAt |-> NoExpiry],
   [allowedModels |-> <<>>, maxTokens |-> 0, maxCostUSD |-> LimitCost,
    expiresAt |-> NoExpiry]}

\* cfg.APIKeyPolicies: k1 gets a policy or none, k2 gets none.
Configs ==
  {[k \in Keys |-> IF k = "k1" THEN p ELSE Nil] : p \in PolicySet \cup {Nil}}

\* Configurations that give both keys the same policy, or none.
ReaderConfigs == {[k \in Keys |-> p] : p \in PolicySet \cup {Nil}}

\* ------------------------------------------------------------ quota.QuotaUsage
NewUsage == [tokens |-> 0, cost |-> 0, requests |-> 0]

\* A *QuotaUsage held by a reader (see the representation notes).
NilRef == [kind |-> "nil", row |-> NewUsage]
LiveRef == [kind |-> "live", row |-> NewUsage]
Detached(r) == [kind |-> "detached", row |-> r]

\* ------------------------------------------------------------ quota.PricingManager
InitPricing ==
  [m \in Models |-> IF m = "m1" THEN [input |-> 1, output |-> 1, cached |-> 0] ELSE Nil]

\* ------------------------------------------------------------ float64 arithmetic
\* A binary floating-point value is mant * 2^exp with MantBits significant bits
\* (53 in float64), every operation rounding its exact result to the nearest
\* value, ties to the even mantissa.  Exponent range is not modelled: the costs
\* of the catalog are far from the ends of it.
Million == 1000000

RECURSIVE Pow2(_)
Pow2(n) == IF n = 0 THEN 1 ELSE 2 * Pow2(n - 1)

\* Mantissas run from MantLow up to, not including, MantTop.
MantTop == Pow2(MantBits)
MantLow == Pow2(MantBits - 1)

FZero == [mant |-> 0, exp |-> 0]

\* num / den to the nearest integer, ties to even.
RoundHalfEven(num, den) ==
  LET q == num \div den
      r == num % den
  IN IF 2 * r > den \/ (2 * r = den /\ q % 2 = 1) THEN q + 1 ELSE q

\* The floating-point value nearest to (num / den) * 2^exp.
RECURSIVE Fl(_, _, _)
Fl(num, den, exp) ==
  IF num = 0 THEN FZero
  ELSE IF num >= den * MantTop THEN Fl(num, 2 * den, exp + 1)
  ELSE IF num < den * MantLow THEN Fl(2 * num, den, exp - 1)
  ELSE LET q == RoundHalfEven(num, den)
       IN IF q = MantTop THEN [mant |-> MantLow, exp |-> exp + 1]
          ELSE [mant |-> q, exp |-> exp]

\* float64(n) of an int64, a * b, a / n for a whole n, a + b.
FromInt(n) == Fl(n, 1, 0)
FMul(a, b) == Fl(a.mant * b.mant, 1, a.exp + b.exp)
FDiv(a, n) == Fl(a.mant, n, a.exp)
FAdd(a, b) ==
  LET e == IF a.exp < b.exp THEN a.exp ELSE b.exp
  IN Fl(a.mant * Pow2(a.exp - e) + b.mant * Pow2(b.exp - e), 1, e)

\* A CalculateCost that prices cached tokens at the cached price even when
\* that price is zero.
CalculateCost_Float64_NoFallback(price, inputTokens, outputTokens, cachedTokens) ==
  IF price = Nil THEN FZero
  ELSE LET inputCost == FDiv(FMul(FromInt(inputTokens), FromInt(price.input)), Million)
           cachedCost == FDiv(FMul(FromInt(cachedTokens), FromInt(price.cached)), Million)
           outputCost == FDiv(FMul(FromInt(outputTokens), FromInt(price.output)), Million)
       IN FAdd(FAdd(inputCost, cachedCost), outputCost)

\* PricingManager.CalculateCost as float64 computes it, price being what
\* GetPricing returned for the model: prices are whole dollars per million.
CalculateCost_Float64(price, inputTokens, outputTokens, cachedTokens) ==
  IF price = Nil THEN FZero
  ELSE LET inputCost == FDiv(FMul(FromInt(inputTokens), FromInt(price.input)), Million)
           cachedPrice == IF price.cached = 0 THEN price.input ELSE price.cached
           cachedCost == FDiv(FMul(FromInt(cachedTokens), FromInt(cachedPrice)), Million)
           outputCost == FDiv(FMul(FromInt(outputTokens), FromInt(price.output)), Million)
       IN FAdd(FAdd(inputCost, cachedCost), outputCost)

\* A CalculateCost that charges an unknown model one unit a token.
CalculateCost_ChargesUnknown(pr, model, inputTokens, outputTokens, cachedTokens) ==
  IF pr[model] = Nil THEN inputTokens + outputTokens
  ELSE LET cachedPrice == IF pr[model].cached = 0 THEN pr[model].input
                          ELSE pr[model].cached
       IN inputTokens * pr[model].input + cachedTokens * cachedPrice
            + outputTokens * pr[model].output

\* PricingManager.CalculateCost over a catalog pr, in whole units of cost: exact
\* on the small whole prices and token counts of the ledger runs.
CalculateCost(pr, model, inputTokens, outputTokens, cachedTokens) ==
  IF pr[model] = Nil THEN 0
  ELSE LET cachedPrice == IF pr[model].cached = 0 THEN pr[model].input
                          ELSE pr[model].cached
       IN inputTokens * pr[model].input + cachedTokens * cachedPrice
            + outputTokens * pr[model].output

VARIABLES
  policies,         \* Manager.policies: key -> policy or Nil
  usage,            \* Manager.usage: key -> row or Nil
  pricing,          \* PricingManager.pricing: model -> price or Nil
  mu,               \* Manager.mu: "free" or the thread holding the write lock
  now,              \* time.Now()
  chk,              \* per checker thread: position in CheckQuota and its locals
  upd,              \* per updater thread: position in UpdateUsage and its locals
  adm,              \* per admin thread: position in the persistence calls
  gor,              \* per autosave goroutine: position in its loop
  sav,              \* per saver: position in SaveUsageToFile and its locals
  persistencePath,  \* "" or the resolved snapshot path
  stopAutoSave,     \* 0 (nil channel) or the id of the current stop channel
  autoSaveRunning,
  chans,            \* number of stop channels made so far (ids 1..chans)
  closed,           \* ids of the closed stop channels
  panicked,         \* a close of a nil or closed channel happened
  disk,             \* the directory: what the real path and the .tmp path hold
  expTok,           \* history: per key, tokens the invoked updates account for
  expReq,           \* history: per key, requests the invoked updates account for
  finalSnap,        \* history: the snapshot of the last successful final save, while
                    \* no ledger or persistence operation was invoked or in flight since
  singletons,       \* managerInstance/managerOnce and pricingManagerInstance/pricingManagerOnce
  acc               \* per accessor thread: position in GetManager / GetPricingManager

mgrVars == <<policies, usage, pricing, mu, now>>
persistVars == <<persistencePath, stopAutoSave, autoSaveRunning, chans, closed, panicked>>
threadVars == <<chk, upd, adm, gor, sav>>
histVars == <<expTok, expReq, finalSnap>>
onceVars == <<singletons, acc>>
vars == <<mgrVars, persistVars, threadVars, disk, histVars, onceVars>>


\* ------------------------------------------------------------ thread records
NoResult ==
  [allowed |-> FALSE, kind |-> "pending", remTokens |-> None, remCost |-> None,
   details |-> Nil]

\* What the request around a check has come to: the response status (0: none yet),
\* the token usage the handler put in the context, the UpdateUsage calls made.
NoHttp == [status |-> 0, input |-> 0, output |-> 0, cached |-> 0, updates |-> 0]

IdleChk ==
  [pc |-> "idle", key |-> "", model |-> "", policy |-> Nil, usage |-> NilRef,
   tokAtGet |-> None, seenNow |-> None, seenTok |-> None, seenCost |-> None,
   res |-> NoResult, http |-> NoHttp, status |-> Nil]

IdleUpd ==
  [pc |-> "idle", key |-> "", model |-> "", input |-> 0, output |-> 0, cached |-> 0,
   ok |-> TRUE, dTok |-> 0, dCost |-> 0, ld |-> 0, price |-> Nil, cost |-> Nil]

\* The requests an updater may report: (model, input, output, cached).
UpdateInputs ==
  {[model |-> "m1", input |-> 1, output |-> 0, cached |-> 0],
   [model |-> "m1", input |-> 0, output |-> 0, cached |-> 1],
   [model |-> "m2", input |-> 0, output |-> 1, cached |-> 0]}

\* The requests reported against the decision engine: one that costs, one of a
\* model without a price.
QuotaInputs ==
  {[model |-> "m1", input |-> 1, output |-> 0, cached |-> 0],
   [model |-> "m2", input |-> 0, output |-> 1, cached |-> 0]}

\* The one request reported against the snapshot file.
SnapshotInputs == {[model |-> "m1", input |-> 1, output |-> 0, cached |-> 0]}

RECURSIVE SetSum(_, _)
SetSum(f, S) ==
  IF S = {} THEN 0
  ELSE LET x == CHOOSE y \in S : TRUE IN f[x] + SetSum(f, S \ {x})

Tok(k) == IF usage[k] = Nil THEN 0 ELSE usage[k].tokens
Cost(k) == IF usage[k] = Nil THEN 0 ELSE usage[k].cost
Req(k) == IF usage[k] = Nil THEN 0 ELSE usage[k].requests

\* The updates of key k that are invoked and wait for Manager.mu.
Waiting(k) == {t \in Updaters : upd[t].pc = "lock" /\ upd[t].key = k}
WaitingTok(k) == SetSum([t \in Updaters |-> upd[t].input + upd[t].output], Waiting(k))

\* ------------------------------------------------------------ sync.RWMutex Manager.mu
\* An UpdateUsage that does not take the lock.
CanLock_Always == TRUE

CanLock == mu = "free"

CanRLock_Always == TRUE

CanRLock == mu = "free"

\* The readers whose *QuotaUsage for a key of K leaves the map keep the object.
DetachRefs(K) ==
  [t \in Checkers |->
     IF chk[t].key \in K /\ chk[t].usage.kind = "live"
     THEN [chk[t] EXCEPT !.usage = Detached(usage[chk[t].key])]
     ELSE chk[t]]

Deref(ref, k) == IF ref.kind = "live" THEN usage[k] ELSE ref.row

\* ------------------------------------------------------------ Manager.CheckQuota
Denied(kind) ==
  [allowed |-> FALSE, kind |-> kind, remTokens |-> None, remCost |-> None,
   details |-> Nil]

\* NewDeniedResult(NewModelNotAllowedError(model, policy.AllowedModels), ...): the
\* details name the requested model and the list.
ModelNotAllowed(c) ==
  [Denied("model_not_allowed") EXCEPT
     !.details = [requested_model |-> c.model,
                  allowed_models |-> IF c.policy = Nil THEN <<>>
                                     ELSE c.policy.allowedModels]]

\* policy := m.GetPolicy(apiKey), a read under RLock.
GetPolicy(k) == policies[k]

\* usage := m.GetUsageReadOnly(apiKey), a read under RLock.
GetUsageReadOnly(k) == IF usage[k] = Nil THEN NilRef ELSE LiveRef

CheckQuota_GetPolicy(t, k, m) ==
  /\ chk[t].pc = "idle"
  /\ CanRLock
  /\ chk' = [chk EXCEPT ![t] = [IdleChk EXCEPT !.pc = "getUsage", !.key = k,
                                               !.model = m, !.policy = GetPolicy(k)]]
  /\ UNCHANGED <<onceVars, mgrVars, persistVars, upd, adm, gor, sav, disk, histVars>>

\* A CheckQuota whose read of the row creates it when missing (GetUsage for
\* GetUsageReadOnly).
CheckQuota_GetUsage_Creates(t) ==
  /\ chk[t].pc = "getUsage"
  /\ CanLock
  /\ usage' = IF usage[chk[t].key] = Nil THEN [usage EXCEPT ![chk[t].key] = NewUsage]
              ELSE usage
  /\ chk' = [chk EXCEPT ![t].pc = "policyChecks",
                        ![t].usage = LiveRef,
                        ![t].tokAtGet = IF usage[chk[t].key] = Nil THEN Some(0)
                                        ELSE Some(usage[chk[t].key].tokens)]
  /\ UNCHANGED <<onceVars, policies, pricing, mu, now, persistVars, upd, adm, gor, sav, disk, histVars>>

CheckQuota_GetUsage(t) ==
  /\ chk[t].pc = "getUsage"
  /\ CanRLock
  /\ chk' = [chk EXCEPT ![t].pc = "policyChecks",
                        ![t].usage = GetUsageReadOnly(chk[t].key),
                        ![t].tokAtGet = IF usage[chk[t].key] = Nil THEN None
                                        ELSE Some(usage[chk[t].key].tokens)]
  /\ UNCHANGED <<onceVars, mgrVars, persistVars, upd, adm, gor, sav, disk, histVars>>

\* A decision engine that checks the model before the expiration.
PolicyChecks_ModelFirst(c) ==
  IF c.policy = Nil
  THEN [c EXCEPT !.pc = "remTokens"]
  ELSE IF ~IsModelAllowed(c.policy, c.model)
  THEN [c EXCEPT !.pc = "done", !.seenNow = Some(now), !.res = ModelNotAllowed(c)]
  ELSE IF IsExpired(c.policy, now)
  THEN [c EXCEPT !.pc = "done", !.seenNow = Some(now), !.res = Denied("api_key_expired")]
  ELSE [c EXCEPT !.pc = "tokenLimit", !.seenNow = Some(now)]

\* A decision engine that denies a key without a policy.
PolicyChecks_DenyByDefault(c) ==
  IF c.policy = Nil
  THEN [c EXCEPT !.pc = "done", !.res = ModelNotAllowed(c)]
  ELSE IF IsExpired(c.policy, now)
  THEN [c EXCEPT !.pc = "done", !.seenNow = Some(now), !.res = Denied("api_key_expired")]
  ELSE IF ~IsModelAllowed(c.policy, c.model)
  THEN [c EXCEPT !.pc = "done", !.seenNow = Some(now), !.res = ModelNotAllowed(c)]
  ELSE [c EXCEPT !.pc = "tokenLimit", !.seenNow = Some(now)]

\* No policy: return NewAllowedResult(nil, usage).  Otherwise check 1 (expiration)
\* and check 2 (model restriction).
PolicyChecks(c) ==
  IF c.policy = Nil
  THEN [c EXCEPT !.pc = "remTokens"]
  ELSE IF IsExpired(c.policy, now)
  THEN [c EXCEPT !.pc = "done", !.seenNow = Some(now), !.res = Denied("api_key_expired")]
  ELSE IF ~IsModelAllowed(c.policy, c.model)
  THEN [c EXCEPT !.pc = "done", !.seenNow = Some(now), !.res = ModelNotAllowed(c)]
  ELSE [c EXCEPT !.pc = "tokenLimit", !.seenNow = Some(now)]

CheckQuota_PolicyChecks(t) ==
  /\ chk[t].pc = "policyChecks"
  /\ chk' = [chk EXCEPT ![t] = PolicyChecks(chk[t])]
  /\ UNCHANGED <<onceVars, mgrVars, persistVars, upd, adm, gor, sav, disk, histVars>>

\* A token check that lets a key spend one request past its budget (> for >=).
TokenLimit_Strict(c) ==
  IF HasTokenLimit(c.policy) /\ c.usage.kind # "nil"
  THEN LET used == Deref(c.usage, c.key).tokens
       IN IF used > c.policy.maxTokens
          THEN [c EXCEPT !.pc = "done", !.seenTok = Some(used),
                         !.res = Denied("token_limit_exceeded")]
          ELSE [c EXCEPT !.pc = "costLimit", !.seenTok = Some(used)]
  ELSE [c EXCEPT !.pc = "costLimit"]

\* Check 3: usage.TotalTokens is read through the pointer, outside any lock.
TokenLimit(c) ==
  IF HasTokenLimit(c.policy) /\ c.usage.kind # "nil"
  THEN LET used == Deref(c.usage, c.key).tokens
       IN IF used >= c.policy.maxTokens
          THEN [c EXCEPT !.pc = "done", !.seenTok = Some(used),
                         !.res = Denied("token_limit_exceeded")]
          ELSE [c EXCEPT !.pc = "costLimit", !.seenTok = Some(used)]
  ELSE [c EXCEPT !.pc = "costLimit"]

CheckQuota_TokenLimit(t) ==
  /\ chk[t].pc = "tokenLimit"
  /\ chk' = [chk EXCEPT ![t] = TokenLimit(chk[t])]
  /\ UNCHANGED <<onceVars, mgrVars, persistVars, upd, adm, gor, sav, disk, histVars>>

\* A cost check that lets a key spend up to and including its budget (> for >=).
CostLimit_Strict(c) ==
  IF HasCostLimit(c.policy) /\ c.usage.kind # "nil"
  THEN LET used == Deref(c.usage, c.key).cost
       IN IF used > c.policy.maxCostUSD
          THEN [c EXCEPT !.pc = "done", !.seenCost = Some(used),
                         !.res = Denied("cost_limit_exceeded")]
          ELSE [c EXCEPT !.pc = "remTokens", !.seenCost = Some(used)]
  ELSE [c EXCEPT !.pc = "remTokens"]

\* Check 4: usage.TotalCostUSD is read through the pointer, outside any lock.
CostLimit(c) ==
  IF HasCostLimit(c.policy) /\ c.usage.kind # "nil"
  THEN LET used == Deref(c.usage, c.key).cost
       IN IF used >= c.policy.maxCostUSD
          THEN [c EXCEPT !.pc = "done", !.seenCost = Some(used),
                         !.res = Denied("cost_limit_exceeded")]
          ELSE [c EXCEPT !.pc = "remTokens", !.seenCost = Some(used)]
  ELSE [c EXCEPT !.pc = "remTokens"]

CheckQuota_CostLimit(t) ==
  /\ chk[t].pc = "costLimit"
  /\ chk' = [chk EXCEPT ![t] = CostLimit(chk[t])]
  /\ UNCHANGED <<onceVars, mgrVars, persistVars, upd, adm, gor, sav, disk, histVars>>

\* NewAllowedResult(policy, usage): the two margins re-read the row's counters.
RemainingTokens(c) ==
  IF c.policy # Nil /\ c.usage.kind # "nil" /\ HasTokenLimit(c.policy)
  THEN Some(c.policy.maxTokens - Deref(c.usage, c.key).tokens)
  ELSE None

RemainingCost(c) ==
  IF c.policy # Nil /\ c.usage.kind # "nil" /\ HasCostLimit(c.policy)
  THEN Some(c.policy.maxCostUSD - Deref(c.usage, c.key).cost)
  ELSE None

CheckQuota_RemainingTokens(t) ==
  /\ chk[t].pc = "remTokens"
  /\ chk' = [chk EXCEPT ![t].pc = "remCost",
                        ![t].res.remTokens = RemainingTokens(chk[t])]
  /\ UNCHANGED <<onceVars, mgrVars, persistVars, upd, adm, gor, sav, disk, histVars>>

CheckQuota_RemainingCost(t) ==
  /\ chk[t].pc = "remCost"
  /\ chk' = [chk EXCEPT ![t].pc = "done",
                        ![t].res.allowed = TRUE,
                        ![t].res.kind = "none",
                        ![t].res.remCost = RemainingCost(chk[t])]
  /\ UNCHANGED <<onceVars, mgrVars, persistVars, upd, adm, gor, sav, disk, histVars>>

\* The caller drops the CheckResult.
CheckQuota_Return(t) ==
  /\ chk[t].pc = "done"
  /\ chk' = [chk EXCEPT ![t] = IdleChk]
  /\ UNCHANGED <<onceVars, mgrVars, persistVars, upd, adm, gor, sav, disk, histVars>>

\* ------------------------------------------------------------ Manager.GetQuotaStatus
\* policy := m.GetPolicy(apiKey), a read under RLock.
GetQuotaStatus_GetPolicy(t, k) ==
  /\ chk[t].pc = "idle"
  /\ CanRLock
  /\ chk' = [chk EXCEPT ![t] = [IdleChk EXCEPT !.pc = "statusUsage", !.key = k,
                                               !.policy = GetPolicy(k)]]
  /\ UNCHANGED <<onceVars, mgrVars, persistVars, upd, adm, gor, sav, disk, histVars>>

\* usage := m.GetUsageReadOnly(apiKey), a read under RLock.
GetQuotaStatus_GetUsage(t) ==
  /\ chk[t].pc = "statusUsage"
  /\ CanRLock
  /\ chk' = [chk EXCEPT ![t].pc = "statusBuild", ![t].usage = GetUsageReadOnly(chk[t].key)]
  /\ UNCHANGED <<onceVars, mgrVars, persistVars, upd, adm, gor, sav, disk, histVars>>

\* The status map: has_policy, has_usage, is_expired of the policy at time.Now(),
\* the counters of the row read through the pointer, the margins and the
\* percentages (used * 100 over the limit) where both policy and row exist.
QuotaStatus(c) ==
  LET row == Deref(c.usage, c.key)
      both == c.policy # Nil /\ c.usage.kind # "nil"
  IN [has_policy |-> c.policy # Nil,
      has_usage |-> c.usage.kind # "nil",
      is_expired |-> IF c.policy # Nil THEN Some(IF IsExpired(c.policy, now) THEN 1 ELSE 0)
                     ELSE None,
      total_tokens |-> IF c.usage.kind # "nil" THEN Some(row.tokens) ELSE None,
      total_cost_usd |-> IF c.usage.kind # "nil" THEN Some(row.cost) ELSE None,
      total_requests |-> IF c.usage.kind # "nil" THEN Some(row.requests) ELSE None,
      remaining_tokens |-> IF both /\ HasTokenLimit(c.policy)
                           THEN Some(c.policy.maxTokens - row.tokens) ELSE None,
      token_usage_percent |-> IF both /\ HasTokenLimit(c.policy)
                              THEN <<row.tokens * 100, c.policy.maxTokens>> ELSE <<>>,
      remaining_cost_usd |-> IF both /\ HasCostLimit(c.policy)
                             THEN Some(c.policy.maxCostUSD - row.cost) ELSE None,
      cost_usage_percent |-> IF both /\ HasCostLimit(c.policy)
                             THEN <<row.cost * 100, c.policy.maxCostUSD>> ELSE <<>>]

GetQuotaStatus_Build(t) ==
  /\ chk[t].pc = "statusBuild"
  /\ chk' = [chk EXCEPT ![t].pc = "statusDone", ![t].status = QuotaStatus(chk[t])]
  /\ UNCHANGED <<onceVars, mgrVars, persistVars, upd, adm, gor, sav, disk, histVars>>

\* The caller drops the status map.
GetQuotaStatus_Return(t) ==
  /\ chk[t].pc = "statusDone"
  /\ chk' = [chk EXCEPT ![t] = IdleChk]
  /\ UNCHANGED <<onceVars, mgrVars, persistVars, upd, adm, gor, sav, disk, histVars>>

\* ------------------------------------------------------------ Manager.UpdateUsage
\* The TotalRequests values of key k that exist anywhere: in the ledger, in the
\* files, in a document a saver or a loader holds.
RequestsOf(doc) == {doc[x].total_requests : x \in DOMAIN doc}
KnownRequests(k) ==
  {Req(k)}
    \cup UNION {RequestsOf([x \in DOMAIN f.data \cap {k} |-> f.data[x]]) :
                  f \in {disk.real, disk.tmp}}
    \cup UNION {RequestsOf([x \in DOMAIN sav[s].data \cap {k} |-> sav[s].data[x]]) :
                  s \in Savers}
    \cup UNION {{adm[t].doc[x].requests : x \in DOMAIN adm[t].doc \cap {k}} :
                  t \in Admins}
Ceiling(k) == CHOOSE n \in KnownRequests(k) : \A m \in KnownRequests(k) : m <= n

\* The call: the arguments are fixed and the thread goes for m.mu.Lock().  The
\* guard caps the counters: no row of the key ever counts more than cap requests.
UpdateUsage_Call(t, k, in, cap) ==
  /\ upd[t].pc = "idle"
  /\ Ceiling(k) + Cardinality(Waiting(k)) + 1 <= cap
  /\ upd' = [upd EXCEPT ![t] = [IdleUpd EXCEPT !.pc = "lock", !.key = k,
                                               !.model = in.model, !.input = in.input,
                                               !.output = in.output, !.cached = in.cached]]
  /\ expTok' = [expTok EXCEPT ![k] = @ + in.input + in.output]
  /\ expReq' = [expReq EXCEPT ![k] = @ + 1]
  /\ finalSnap' = Nil
  /\ UNCHANGED <<onceVars, mgrVars, persistVars, chk, adm, gor, sav, disk>>

\* An UpdateUsage that counts the cached tokens on top of the input tokens.
UpdateUsage_Lock_CountsCached(t) ==
  /\ upd[t].pc = "lock"
  /\ CanLock
  /\ mu' = t
  /\ usage' = IF usage[upd[t].key] = Nil THEN [usage EXCEPT ![upd[t].key] = NewUsage]
              ELSE usage
  /\ upd' = [upd EXCEPT ![t].pc = "ldTokens",
                        ![t].ok = usage[upd[t].key] # Nil,
                        ![t].dTok = upd[t].input + upd[t].output + upd[t].cached,
                        ![t].dCost = CalculateCost(pricing, upd[t].model, upd[t].input,
                                                   upd[t].output, upd[t].cached)]
  /\ UNCHANGED <<onceVars, policies, pricing, now, persistVars, chk, adm, gor, sav, disk, histVars>>

\* m.mu.Lock(); the row is looked up and created when missing; totalTokens and
\* cost are computed.
UpdateUsage_Lock(t) ==
  /\ upd[t].pc = "lock"
  /\ CanLock
  /\ mu' = t
  /\ usage' = IF usage[upd[t].key] = Nil THEN [usage EXCEPT ![upd[t].key] = NewUsage]
              ELSE usage
  /\ upd' = [upd EXCEPT ![t].pc = "ldTokens",
                        ![t].ok = usage[upd[t].key] # Nil,
                        ![t].dTok = upd[t].input + upd[t].output,
                        ![t].dCost = CalculateCost(pricing, upd[t].model, upd[t].input,
                                                   upd[t].output, upd[t].cached)]
  /\ UNCHANGED <<onceVars, policies, pricing, now, persistVars, chk, adm, gor, sav, disk, histVars>>

\* usage.X += d is a load and a store of the field of the row the thread holds.
LoadField(t, field, next) ==
  /\ upd' = [upd EXCEPT ![t].pc = next,
                        ![t].ld = IF usage[upd[t].key] = Nil THEN 0
                                  ELSE usage[upd[t].key][field]]
  /\ UNCHANGED <<onceVars, mgrVars, persistVars, chk, adm, gor, sav, disk, histVars>>

StoreField(t, field, d) ==
  usage' = IF usage[upd[t].key] = Nil THEN usage
           ELSE [usage EXCEPT ![upd[t].key][field] = upd[t].ld + d]

UpdateUsage_LoadTokens(t) ==
  /\ upd[t].pc = "ldTokens"
  /\ LoadField(t, "tokens", "stTokens")

UpdateUsage_StoreTokens(t) ==
  /\ upd[t].pc = "stTokens"
  /\ StoreField(t, "tokens", upd[t].dTok)
  /\ upd' = [upd EXCEPT ![t].pc = "ldCost"]
  /\ UNCHANGED <<onceVars, policies, pricing, mu, now, persistVars, chk, adm, gor, sav, disk, histVars>>

UpdateUsage_LoadCost(t) ==
  /\ upd[t].pc = "ldCost"
  /\ LoadField(t, "cost", "stCost")

UpdateUsage_StoreCost(t) ==
  /\ upd[t].pc = "stCost"
  /\ StoreField(t, "cost", upd[t].dCost)
  /\ upd' = [upd EXCEPT ![t].pc = "ldRequests"]
  /\ UNCHANGED <<onceVars, policies, pricing, mu, now, persistVars, chk, adm, gor, sav, disk, histVars>>

UpdateUsage_LoadRequests(t) ==
  /\ upd[t].pc = "ldRequests"
  /\ LoadField(t, "requests", "stRequests")

\* usage.TotalRequests++, then the deferred m.mu.Unlock() and the return.
UpdateUsage_StoreRequests(t) ==
  /\ upd[t].pc = "stRequests"
  /\ StoreField(t, "requests", 1)
  /\ mu' = IF mu = t THEN "free" ELSE mu
  /\ upd' = [upd EXCEPT ![t] = IdleUpd]
  /\ UNCHANGED <<onceVars, policies, pricing, now, persistVars, chk, adm, gor, sav, disk, histVars>>

\* ------------------------------------------------------------ Middleware, PostRequestMiddleware
\* A request with an API key runs Middleware (CheckQuota, then abort or c.Next()),
\* the handler, and PostRequestMiddleware, in one goroutine: the checker thread,
\* whose UpdateUsage call runs as the updater thread Worker gives it.
Worker(t) == "u1"

\* respondWithQuotaError: 401 for an expired key, 403 otherwise.
QuotaErrorStatus(kind) == IF kind = "api_key_expired" THEN 401 ELSE 403

\* What a handler may leave: a status and the token usage of SetTokenUsage.
Outcomes ==
  {[status |-> 200, input |-> 1, output |-> 0, cached |-> 0],
   [status |-> 200, input |-> 0, output |-> 0, cached |-> 0],
   [status |-> 200, input |-> 0, output |-> 0, cached |-> 1],
   [status |-> 500, input |-> 1, output |-> 0, cached |-> 0]}

\* A Middleware that answers a denied request with the error and then lets the
\* chain go on to the handler.
Middleware_Abort_GoesOn(t) ==
  /\ chk[t].pc = "done"
  /\ ~chk[t].res.allowed
  /\ chk' = [chk EXCEPT ![t].pc = "handler",
                        ![t].http.status = QuotaErrorStatus(chk[t].res.kind)]
  /\ UNCHANGED <<onceVars, mgrVars, persistVars, upd, adm, gor, sav, disk, histVars>>

\* if !result.Allowed { respondWithQuotaError(c, result.Error); c.Abort(); return }
Middleware_Abort(t) ==
  /\ chk[t].pc = "done"
  /\ ~chk[t].res.allowed
  /\ chk' = [chk EXCEPT ![t].pc = "post",
                        ![t].http.status = QuotaErrorStatus(chk[t].res.kind)]
  /\ UNCHANGED <<onceVars, mgrVars, persistVars, upd, adm, gor, sav, disk, histVars>>

\* The same abort when PostRequestMiddleware is chained after Middleware:
\* c.Abort() keeps every later handler of the chain from running, so the request
\* ends without PostRequestMiddleware.
Middleware_Abort_PostLater(t) ==
  /\ chk[t].pc = "done"
  /\ ~chk[t].res.allowed
  /\ chk' = [chk EXCEPT ![t].pc = "finished",
                        ![t].http.status = QuotaErrorStatus(chk[t].res.kind)]
  /\ UNCHANGED <<onceVars, mgrVars, persistVars, upd, adm, gor, sav, disk, histVars>>

\* c.Next(): the request goes on to the handler.
Middleware_Next(t) ==
  /\ chk[t].pc = "done"
  /\ chk[t].res.allowed
  /\ chk' = [chk EXCEPT ![t].pc = "handler"]
  /\ UNCHANGED <<onceVars, mgrVars, persistVars, upd, adm, gor, sav, disk, histVars>>

\* The handler writes the response and reports the token usage.  The guard caps
\* the counters as UpdateUsage_Call does.
Handler(t, out, cap) ==
  /\ chk[t].pc = "handler"
  /\ Ceiling(chk[t].key) + Cardinality(Waiting(chk[t].key)) + 1 <= cap
  /\ chk' = [chk EXCEPT ![t].pc = "post",
                        ![t].http = [NoHttp EXCEPT !.status = out.status,
                                                   !.input = out.input,
                                                   !.output = out.output,
                                                   !.cached = out.cached]]
  /\ UNCHANGED <<onceVars, mgrVars, persistVars, upd, adm, gor, sav, disk, histVars>>

\* PostRequestMiddleware after c.Next(): nothing for a status >= 400, nothing when
\* neither input nor output tokens are reported, else manager.UpdateUsage(...).
PostRequestMiddleware(t) ==
  /\ chk[t].pc = "post"
  /\ IF chk[t].http.status < 400 /\ (chk[t].http.input > 0 \/ chk[t].http.output > 0)
     THEN /\ upd[Worker(t)].pc = "idle"
          /\ upd' = [upd EXCEPT ![Worker(t)] =
                       [IdleUpd EXCEPT !.pc = "lock", !.key = chk[t].key,
                                       !.model = chk[t].model,
                                       !.input = chk[t].http.input,
                                       !.output = chk[t].http.output,
                                       !.cached = chk[t].http.cached]]
          /\ expTok' = [expTok EXCEPT ![chk[t].key] =
                          @ + chk[t].http.input + chk[t].http.output]
          /\ expReq' = [expReq EXCEPT ![chk[t].key] = @ + 1]
          /\ finalSnap' = Nil
          /\ chk' = [chk EXCEPT ![t].pc = "update", ![t].http.updates = @ + 1]
     ELSE /\ chk' = [chk EXCEPT ![t].pc = "finished"]
          /\ UNCHANGED <<onceVars, upd, histVars>>
  /\ UNCHANGED <<onceVars, mgrVars, persistVars, adm, gor, sav, disk>>

\* UpdateUsage returned and so does PostRequestMiddleware.
PostRequestMiddleware_Return(t) ==
  /\ chk[t].pc = "update"
  /\ upd[Worker(t)].pc = "idle"
  /\ chk' = [chk EXCEPT ![t].pc = "finished"]
  /\ UNCHANGED <<onceVars, mgrVars, persistVars, upd, adm, gor, sav, disk, histVars>>

\* The request is over.
Request_End(t) ==
  /\ chk[t].pc = "finished"
  /\ chk' = [chk EXCEPT ![t] = IdleChk]
  /\ UNCHANGED <<onceVars, mgrVars, persistVars, upd, adm, gor, sav, disk, histVars>>

\* ------------------------------------------------------------ Manager, one-lock operations
\* What the waiting updates of k will still add, once the row is gone or replaced.
Rebase(h, k, base, pending) == [h EXCEPT ![k] = base + pending]

\* Manager.LoadPolicies: nothing for a nil config; else the map is replaced under
\* the write lock by copies of the structs of cfg, a newly parsed config whose
\* slices no map returned earlier shares.
LoadPolicies(t, cfg) ==
  /\ adm[t].pc = "idle"
  /\ IF cfg = Nil
     THEN UNCHANGED <<onceVars, policies, finalSnap>>
     ELSE /\ CanLock
          /\ policies' = cfg
          /\ finalSnap' = Nil
  /\ adm' = IF cfg = Nil THEN adm ELSE [x \in Admins |-> [adm[x] EXCEPT !.retShared = {}]]
  /\ UNCHANGED <<onceVars, usage, pricing, mu, now, persistVars, chk, upd, gor, sav, disk,
                 expTok, expReq>>

\* Manager.GetUsage: returns the row, creating it when missing.
GetUsage(t, k) ==
  /\ adm[t].pc = "idle"
  /\ CanLock
  /\ usage' = IF usage[k] = Nil THEN [usage EXCEPT ![k] = NewUsage] ELSE usage
  /\ finalSnap' = Nil
  /\ UNCHANGED <<onceVars, policies, pricing, mu, now, persistVars, threadVars, disk, expTok, expReq>>

\* Manager.SetUsage: the map entry is replaced by the given row.
SetUsage(k, row) ==
  /\ CanLock
  /\ usage' = [usage EXCEPT ![k] = row]
  /\ chk' = DetachRefs({k})
  /\ expTok' = Rebase(expTok, k, row.tokens, WaitingTok(k))
  /\ expReq' = Rebase(expReq, k, row.requests, Cardinality(Waiting(k)))

ResetUsage_ClearsAll(t, k) ==
  /\ adm[t].pc = "idle"
  /\ CanLock
  /\ usage' = [j \in Keys |-> Nil]
  /\ chk' = DetachRefs(Keys)
  /\ expTok' = [j \in Keys |-> WaitingTok(j)]
  /\ expReq' = [j \in Keys |-> Cardinality(Waiting(j))]
  /\ finalSnap' = Nil
  /\ UNCHANGED <<onceVars, policies, pricing, mu, now, persistVars, upd, adm, gor, sav, disk>>

\* Manager.ResetUsage: delete(m.usage, apiKey) under the lock.
ResetUsage(t, k) ==
  /\ adm[t].pc = "idle"
  /\ CanLock
  /\ usage' = [usage EXCEPT ![k] = Nil]
  /\ chk' = DetachRefs({k})
  /\ expTok' = Rebase(expTok, k, 0, WaitingTok(k))
  /\ expReq' = Rebase(expReq, k, 0, Cardinality(Waiting(k)))
  /\ finalSnap' = Nil
  /\ UNCHANGED <<onceVars, policies, pricing, mu, now, persistVars, upd, adm, gor, sav, disk>>

ResetAllUsage(t) ==
  /\ adm[t].pc = "idle"
  /\ CanLock
  /\ usage' = [k \in Keys |-> Nil]
  /\ chk' = DetachRefs(Keys)
  /\ expTok' = [k \in Keys |-> WaitingTok(k)]
  /\ expReq' = [k \in Keys |-> Cardinality(Waiting(k))]
  /\ finalSnap' = Nil
  /\ UNCHANGED <<onceVars, policies, pricing, mu, now, persistVars, upd, adm, gor, sav, disk>>

\* ------------------------------------------------------------ LoadPolicies, statement by statement
\* The configs of a reload: each key gets one of two policies or none.
ReloadConfigs ==
  [Keys -> {p \in PolicySet : HasTokenLimit(p)} \cup {Nil}]

\* m.mu.Lock(); m.policies = make(map[string]*Policy).
LoadPolicies_Lock(t, cfg) ==
  /\ adm[t].pc = "idle"
  /\ CanLock
  /\ mu' = t
  /\ policies' = [k \in Keys |-> Nil]
  /\ adm' = [x \in Admins |->
              IF x = t
              THEN [adm[x] EXCEPT !.pc = "reload", !.cfg = cfg, !.old = policies,
                                  !.pending = {k \in Keys : cfg[k] # Nil},
                                  !.retShared = {}]
              ELSE [adm[x] EXCEPT !.retShared = {}]]
  /\ finalSnap' = Nil
  /\ UNCHANGED <<onceVars, usage, pricing, now, persistVars, chk, upd, gor, sav, disk,
                 expTok, expReq>>

\* One turn of the loop: policyCopy := policy; m.policies[apiKey] = &policyCopy.
LoadPolicies_Store(t, k) ==
  /\ adm[t].pc = "reload"
  /\ k \in adm[t].pending
  /\ policies' = [policies EXCEPT ![k] = adm[t].cfg[k]]
  /\ adm' = [adm EXCEPT ![t].pending = @ \ {k}]
  /\ UNCHANGED <<onceVars, usage, pricing, mu, now, persistVars, chk, upd, gor, sav, disk, histVars>>

\* The loop is over: the deferred m.mu.Unlock() and the return.
LoadPolicies_Unlock(t) ==
  /\ adm[t].pc = "reload"
  /\ adm[t].pending = {}
  /\ mu' = IF mu = t THEN "free" ELSE mu
  /\ adm' = [adm EXCEPT ![t].pc = "idle", ![t].cfg = Nil, ![t].old = Nil]
  /\ UNCHANGED <<onceVars, policies, usage, pricing, now, persistVars, chk, upd, gor, sav, disk,
                 histVars>>

\* ------------------------------------------------------------ PricingManager, writers
\* What a pricing file or a map of defaults may hold: a price or nothing for
\* each model.
FilePrice == [input |-> 2, output |-> 2, cached |-> 1]
DefaultPrice == [input |-> 1, output |-> 1, cached |-> 0]
PricingFiles == [Models -> {FilePrice, Nil}]
PricingDefaults == [Models -> {DefaultPrice, Nil}]

\* PricingManager.LoadFromFile on a file that parses: every entry of the file
\* replaces the entry of the catalog, under the write lock of the catalog.
PricingManager_LoadFromFile(t, file) ==
  /\ adm[t].pc = "idle"
  /\ pricing' = [x \in Models |-> IF file[x] # Nil THEN file[x] ELSE pricing[x]]
  /\ adm' = [adm EXCEPT ![t].priceFile = file, ![t].priceLast = "file"]
  /\ UNCHANGED <<onceVars, policies, usage, mu, now, persistVars, chk, upd, gor, sav, disk, histVars>>

SetDefaultPricing_Overrides(t, defaults) ==
  /\ adm[t].pc = "idle"
  /\ pricing' = [x \in Models |-> IF defaults[x] # Nil THEN defaults[x] ELSE pricing[x]]
  /\ adm' = [adm EXCEPT ![t].priceDefaults = defaults, ![t].priceLast = "defaults"]
  /\ UNCHANGED <<onceVars, policies, usage, mu, now, persistVars, chk, upd, gor, sav, disk, histVars>>

\* PricingManager.SetDefaultPricing: an entry of defaults is stored only when the
\* catalog has none for the model.
SetDefaultPricing(t, defaults) ==
  /\ adm[t].pc = "idle"
  /\ pricing' = [x \in Models |-> IF pricing[x] = Nil THEN defaults[x] ELSE pricing[x]]
  /\ adm' = [adm EXCEPT ![t].priceDefaults = defaults, ![t].priceLast = "defaults"]
  /\ UNCHANGED <<onceVars, policies, usage, mu, now, persistVars, chk, upd, gor, sav, disk, histVars>>

\* A call of PricingManager.CalculateCost: GetPricing copies the entry of the
\* model under the read lock of the catalog, the cost is computed from the copy.
PricingManager_CalculateCost(t, model, inputTokens, outputTokens, cachedTokens) ==
  /\ upd[t].pc = "idle"
  /\ upd' = [upd EXCEPT ![t] =
               [IdleUpd EXCEPT !.model = model, !.input = inputTokens,
                               !.output = outputTokens, !.cached = cachedTokens,
                               !.price = pricing[model],
                               !.cost = CalculateCost_Float64(pricing[model], inputTokens,
                                                              outputTokens, cachedTokens)]]
  /\ UNCHANGED <<onceVars, mgrVars, persistVars, chk, adm, gor, sav, disk, histVars>>

\* ------------------------------------------------------------ the singletons
\* GetManager and GetPricingManager each guard a package variable with a
\* sync.Once.  Once.Do(f): if done is set, return; otherwise lock the mutex of
\* the Once, and if done is still unset run f and set done; unlock.
Singletons == {"manager", "pricing"}
Accessors == {"x1", "x2"}

\* done and m are the Once, instance the package variable, built the number of
\* times the constructor ran.
NoOnce == [done |-> FALSE, m |-> "free", instance |-> Nil, built |-> 0]

\* top is the function the thread called, pc its position in the Do of each
\* Once, ret what each function returned to it, got everything its calls have
\* returned, slow whether it ever found done unset.
IdleAcc ==
  [top |-> "none",
   pc |-> [w \in Singletons |-> "idle"],
   ret |-> [w \in Singletons |-> Nil],
   got |-> [w \in Singletons |-> {}],
   slow |-> [w \in Singletons |-> FALSE]]

\* A thread calls GetManager() or GetPricingManager().
Get_Call(t, w) ==
  /\ acc[t].top = "none"
  /\ acc' = [acc EXCEPT ![t].top = w, ![t].pc[w] = "do"]
  /\ UNCHANGED <<mgrVars, persistVars, threadVars, disk, histVars, singletons>>

\* Once.Do: the load of done.
Once_Do(t, w) ==
  /\ acc[t].pc[w] = "do"
  /\ acc' = [acc EXCEPT ![t].pc[w] = IF singletons[w].done THEN "ret" ELSE "lock",
                        ![t].slow[w] = @ \/ ~singletons[w].done]
  /\ UNCHANGED <<mgrVars, persistVars, threadVars, disk, histVars, singletons>>

\* Once.doSlow: o.m.Lock().
Once_Lock(t, w) ==
  /\ acc[t].pc[w] = "lock"
  /\ singletons[w].m = "free"
  /\ singletons' = [singletons EXCEPT ![w].m = t]
  /\ acc' = [acc EXCEPT ![t].pc[w] = "check"]
  /\ UNCHANGED <<mgrVars, persistVars, threadVars, disk, histVars>>

\* A doSlow that runs f without looking at done again.
Once_Check_Always(t, w) ==
  /\ acc[t].pc[w] = "check"
  /\ acc' = [acc EXCEPT ![t].pc[w] = "f"]
  /\ UNCHANGED <<mgrVars, persistVars, threadVars, disk, histVars, singletons>>

\* Once.doSlow: the second load of done, under the mutex.
Once_Check(t, w) ==
  /\ acc[t].pc[w] = "check"
  /\ acc' = [acc EXCEPT ![t].pc[w] = IF singletons[w].done THEN "unlock" ELSE "f"]
  /\ UNCHANGED <<mgrVars, persistVars, threadVars, disk, histVars, singletons>>

\* The function GetPricingManager hands to Do: a new PricingManager.
GetPricingManager_New(t) ==
  /\ acc[t].pc["pricing"] = "f"
  /\ singletons' = [singletons EXCEPT
                      !["pricing"].instance = [id |-> singletons["pricing"].built + 1],
                      !["pricing"].built = @ + 1]
  /\ acc' = [acc EXCEPT ![t].pc["pricing"] = "store"]
  /\ UNCHANGED <<mgrVars, persistVars, threadVars, disk, histVars>>

\* The function GetManager hands to Do: first the call of GetPricingManager().
GetManager_GetPricing(t) ==
  /\ acc[t].pc["manager"] = "f"
  /\ acc' = [acc EXCEPT ![t].pc["manager"] = "new", ![t].pc["pricing"] = "do"]
  /\ UNCHANGED <<mgrVars, persistVars, threadVars, disk, histVars, singletons>>

\* Then the new Manager, holding what GetPricingManager() returned.
GetManager_New(t) ==
  /\ acc[t].pc["manager"] = "new"
  /\ acc[t].pc["pricing"] = "returned"
  /\ singletons' = [singletons EXCEPT
                      !["manager"].instance = [id |-> singletons["manager"].built + 1,
                                               pricing |-> acc[t].ret["pricing"]],
                      !["manager"].built = @ + 1]
  /\ acc' = [acc EXCEPT ![t].pc["manager"] = "store", ![t].pc["pricing"] = "idle"]
  /\ UNCHANGED <<mgrVars, persistVars, threadVars, disk, histVars>>

\* Once.doSlow: the deferred done.Store(1).
Once_Store(t, w) ==
  /\ acc[t].pc[w] = "store"
  /\ singletons' = [singletons EXCEPT ![w].done = TRUE]
  /\ acc' = [acc EXCEPT ![t].pc[w] = "unlock"]
  /\ UNCHANGED <<mgrVars, persistVars, threadVars, disk, histVars>>

\* Once.doSlow: the deferred o.m.Unlock().
Once_Unlock(t, w) ==
  /\ acc[t].pc[w] = "unlock"
  /\ singletons' = [singletons EXCEPT ![w].m = "free"]
  /\ acc' = [acc EXCEPT ![t].pc[w] = "ret"]
  /\ UNCHANGED <<mgrVars, persistVars, threadVars, disk, histVars>>

\* return managerInstance / return pricingManagerInstance.
Get_Return(t, w) ==
  /\ acc[t].pc[w] = "ret"
  /\ acc' = [acc EXCEPT ![t].pc[w] = "returned",
                        ![t].ret[w] = singletons[w].instance,
                        ![t].got[w] = @ \cup {singletons[w].instance}]
  /\ UNCHANGED <<mgrVars, persistVars, threadVars, disk, histVars, singletons>>

\* The caller has its instance.
Get_End(t) ==
  /\ acc[t].top # "none"
  /\ acc[t].pc[acc[t].top] = "returned"
  /\ acc' = [acc EXCEPT ![t].top = "none", ![t].pc[acc[t].top] = "idle"]
  /\ UNCHANGED <<mgrVars, persistVars, threadVars, disk, histVars, singletons>>

\* time.Now() advances.
Tick ==
  /\ now < MaxTime
  /\ now' = now + 1
  /\ UNCHANGED <<onceVars, policies, usage, pricing, mu, persistVars, threadVars, disk, histVars>>

\* Manager.AllUsage: a copy of every row, taken under RLock.
AllUsage == usage

\* ------------------------------------------------------------ AllUsage, AllPolicies and their callers
\* Manager.AllPolicies: a new map of copies of the structs (policyCopy := *v); the
\* copy of a struct has the slice header of AllowedModels, not its elements.
AllPolicies_Call(t) ==
  /\ adm[t].pc = "idle"
  /\ CanRLock
  /\ adm' = [adm EXCEPT ![t].retPolicies = policies,
                        ![t].retShared = {k \in Keys : HasModelRestriction(policies[k])}]
  /\ UNCHANGED <<onceVars, mgrVars, persistVars, chk, upd, gor, sav, disk, histVars>>

\* Manager.AllUsage as a call of its own: a new map of copies of the rows.
AllUsage_Call(t) ==
  /\ adm[t].pc = "idle"
  /\ CanRLock
  /\ adm' = [adm EXCEPT ![t].retUsage = AllUsage]
  /\ UNCHANGED <<onceVars, mgrVars, persistVars, chk, upd, gor, sav, disk, histVars>>

\* The caller deletes an entry of a returned map.
Returned_Delete(t, k) ==
  /\ adm[t].pc = "idle"
  /\ \/ /\ adm[t].retPolicies # Nil
        /\ adm[t].retPolicies[k] # Nil
        /\ adm' = [adm EXCEPT ![t].retPolicies[k] = Nil, ![t].retShared = @ \ {k}]
     \/ /\ adm[t].retUsage # Nil
        /\ adm[t].retUsage[k] # Nil
        /\ adm' = [adm EXCEPT ![t].retUsage[k] = Nil]
  /\ UNCHANGED <<onceVars, mgrVars, persistVars, chk, upd, gor, sav, disk, histVars>>

\* The caller assigns a scalar field of a returned policy.
Returned_SetMaxTokens(t, k, n) ==
  /\ adm[t].pc = "idle"
  /\ adm[t].retPolicies # Nil
  /\ adm[t].retPolicies[k] # Nil
  /\ adm' = [adm EXCEPT ![t].retPolicies[k].maxTokens = n]
  /\ UNCHANGED <<onceVars, mgrVars, persistVars, chk, upd, gor, sav, disk, histVars>>

\* The caller assigns a counter of a returned row.
Returned_SetTotalTokens(t, k, n) ==
  /\ adm[t].pc = "idle"
  /\ adm[t].retUsage # Nil
  /\ adm[t].retUsage[k] # Nil
  /\ adm' = [adm EXCEPT ![t].retUsage[k].tokens = n]
  /\ UNCHANGED <<onceVars, mgrVars, persistVars, chk, upd, gor, sav, disk, histVars>>

\* The caller assigns element i of the AllowedModels of a returned policy: the
\* element of the backing array, which every holder of that array sees.
Returned_SetAllowedModel(t, k, i, m) ==
  /\ adm[t].pc = "idle"
  /\ adm[t].retPolicies # Nil
  /\ adm[t].retPolicies[k] # Nil
  /\ i \in 1..Len(adm[t].retPolicies[k].allowedModels)
  /\ adm' = [x \in Admins |->
              IF x = t \/ (k \in adm[t].retShared /\ k \in adm[x].retShared)
              THEN [adm[x] EXCEPT !.retPolicies[k].allowedModels[i] = m]
              ELSE adm[x]]
  /\ policies' = IF k \in adm[t].retShared
                 THEN [policies EXCEPT ![k].allowedModels[i] = m]
                 ELSE policies
  /\ UNCHANGED <<onceVars, usage, pricing, mu, now, persistVars, chk, upd, gor, sav, disk, histVars>>

\* The caller lets go of what it was returned.
Returned_Drop(t) ==
  /\ adm[t].pc = "idle"
  /\ adm[t].retPolicies # Nil \/ adm[t].retUsage # Nil
  /\ adm' = [adm EXCEPT ![t].retPolicies = Nil, ![t].retShared = {}, ![t].retUsage = Nil]
  /\ UNCHANGED <<onceVars, mgrVars, persistVars, chk, upd, gor, sav, disk, histVars>>

\* ------------------------------------------------------------ the snapshot file
Marshal_DropsCost(all) ==
  [k \in {x \in Keys : all[x] # Nil} |->
     [total_tokens |-> all[k].tokens, total_cost_usd |-> 0,
      total_requests |-> all[k].requests]]

\* json.MarshalIndent(persistedUsageData{Usage: allUsage, ...}): the document holds
\* one entry per key that has a row, the counters under their json names.
Marshal(all) ==
  [k \in {x \in Keys : all[x] # Nil} |->
     [total_tokens |-> all[k].tokens, total_cost_usd |-> all[k].cost,
      total_requests |-> all[k].requests]]

NoFile == [st |-> "absent", data |-> <<>>]
\* A file that was created or truncated and does not hold a whole document.
Partial == [st |-> "partial", data |-> <<>>]
\* A file two writers wrote over each other.
Garbled == [st |-> "garbled", data |-> <<>>]
Full(doc) == [st |-> "full", data |-> doc]

Unmarshal_Lenient(f) ==
  [err |-> "nil",
   usage |-> [k \in DOMAIN f.data |->
                [tokens |-> f.data[k].total_tokens, cost |-> f.data[k].total_cost_usd,
                 requests |-> f.data[k].total_requests]]]

\* json.Unmarshal(data, &persisted): the rows of a whole document, an error for
\* anything else.
Unmarshal(f) ==
  IF f.st = "full"
  THEN [err |-> "nil",
        usage |-> [k \in DOMAIN f.data |->
                     [tokens |-> f.data[k].total_tokens, cost |-> f.data[k].total_cost_usd,
                      requests |-> f.data[k].total_requests]]]
  ELSE [err |-> "parse", usage |-> <<>>]

\* snap is the allUsage of the save in hand.
\* wrote is the file the write of the save went to: the temporary file, or the
\* real one when a rename of another save moved the open file there ("same" when
\* that write left the bytes of the real file as they were).
NoSave ==
  [pc |-> "none", snap |-> <<>>, data |-> <<>>, fd |-> "none", done |-> 0,
   wrote |-> "none"]

\* err is what the last LoadUsageFromFile call came to ("none": no call yet in
\* hand); fresh, whether that call found an empty ledger and no update in hand;
\* saved, the allUsage of the thread's last SaveUsageToFile call that returned nil.
\* retPolicies and retUsage are the maps AllPolicies and AllUsage returned to the
\* thread (Nil: none held); retShared, the keys whose returned policy has its
\* AllowedModels slice on the backing array of the live policy.  cfg is the config
\* of the LoadPolicies call in hand, old the map that call found.  priceFile is
\* the pricing file the thread's last LoadFromFile parsed, priceDefaults the map
\* of its last SetDefaultPricing, priceLast which of the two it called last.
IdleAdm ==
  [pc |-> "idle", doc |-> <<>>, pending |-> {}, closedCh |-> 0,
   err |-> "none", fresh |-> FALSE, saved |-> Nil,
   retPolicies |-> Nil, retShared |-> {}, retUsage |-> Nil,
   cfg |-> Nil, old |-> Nil,
   priceFile |-> Nil, priceDefaults |-> Nil, priceLast |-> "none"]

NoGo == [pc |-> "unborn", ch |-> 0]

\* What a write of doc at offset 0 leaves in a file that holds f: the document, or
\* the document followed by the tail of a longer one that another writer put there
\* (a document is longer when it has more entries; the counters are single digits).
Written(f, doc) ==
  IF f.st = "full" /\ Cardinality(DOMAIN f.data) > Cardinality(DOMAIN doc)
  THEN Garbled
  ELSE IF f.st = "garbled" THEN Garbled
  ELSE Full(doc)

\* The open descriptors follow their file when the directory changes.
FdsAfterRename ==
  [s \in Savers |->
     IF sav[s].fd = "tmp" THEN [sav[s] EXCEPT !.fd = "real"]
     ELSE IF sav[s].fd = "real" THEN [sav[s] EXCEPT !.fd = "unlinked"]
     ELSE sav[s]]

FdsAfterRemove ==
  [s \in Savers |-> IF sav[s].fd = "tmp" THEN [sav[s] EXCEPT !.fd = "unlinked"] ELSE sav[s]]

\* ------------------------------------------------------------ SaveUsageToFile
\* persistenceMu.Lock(); path := persistencePath; an empty path is an error.
Save_Path(s) ==
  /\ sav[s].pc = "path"
  /\ sav' = [sav EXCEPT ![s].pc = IF persistencePath = "" THEN "err" ELSE "snap",
                        ![s].done = IF persistencePath = "" THEN @ + 1 ELSE @]
  /\ UNCHANGED <<onceVars, mgrVars, persistVars, chk, upd, adm, gor, disk, histVars>>

\* allUsage := manager.AllUsage(); data := json.MarshalIndent(...).
Save_Snapshot(s) ==
  /\ sav[s].pc = "snap"
  /\ CanRLock
  /\ sav' = [sav EXCEPT ![s].pc = "open", ![s].snap = AllUsage,
                        ![s].data = Marshal(AllUsage)]
  /\ UNCHANGED <<onceVars, mgrVars, persistVars, chk, upd, adm, gor, disk, histVars>>

\* os.WriteFile(tmpPath, ...), first half: open with O_CREATE|O_TRUNC.
Save_Open(s) ==
  /\ sav[s].pc = "open"
  /\ disk' = [disk EXCEPT !.tmp = Partial]
  /\ sav' = [sav EXCEPT ![s].pc = "write", ![s].fd = "tmp"]
  /\ UNCHANGED <<onceVars, mgrVars, persistVars, chk, upd, adm, gor, histVars>>

\* The open fails: "failed to write quota usage temp file".
Save_OpenFails(s) ==
  /\ sav[s].pc = "open"
  /\ sav' = [sav EXCEPT ![s].pc = "err", ![s].done = @ + 1]
  /\ UNCHANGED <<onceVars, mgrVars, persistVars, chk, upd, adm, gor, disk, histVars>>

\* os.WriteFile, second half: the data goes to the opened file, wherever the
\* directory has it by now.
Save_Write(s) ==
  /\ sav[s].pc = "write"
  /\ sav' = [sav EXCEPT ![s].pc = "rename", ![s].fd = "none", ![s].wrote = IF sav[s].fd = "real" /\ Written(disk.real, sav[s].data) = disk.real
                                        THEN "same" ELSE sav[s].fd]
  /\ disk' = IF sav[s].fd = "unlinked" THEN disk
             ELSE [disk EXCEPT ![sav[s].fd] = Written(disk[sav[s].fd], sav[s].data)]
  /\ UNCHANGED <<onceVars, mgrVars, persistVars, chk, upd, adm, gor, histVars>>

\* The write fails and the file stays as it is.
Save_WriteFails(s) ==
  /\ sav[s].pc = "write"
  /\ sav' = [sav EXCEPT ![s].pc = "err", ![s].fd = "none", ![s].done = @ + 1]
  /\ UNCHANGED <<onceVars, mgrVars, persistVars, chk, upd, adm, gor, disk, histVars>>

\* os.Rename(tmpPath, path): the temporary file replaces the real one; the rename
\* fails when the temporary file is gone.
Save_Rename(s) ==
  /\ sav[s].pc = "rename"
  /\ IF disk.tmp.st # "absent"
     THEN /\ disk' = [real |-> disk.tmp, tmp |-> NoFile]
          /\ sav' = [FdsAfterRename EXCEPT ![s].pc = "ok", ![s].done = @ + 1]
     ELSE /\ sav' = [sav EXCEPT ![s].pc = "remove"]
          /\ UNCHANGED disk
  /\ UNCHANGED <<onceVars, mgrVars, persistVars, chk, upd, adm, gor, histVars>>

\* The rename fails for a reason of the file system.
Save_RenameFails(s) ==
  /\ sav[s].pc = "rename"
  /\ sav' = [sav EXCEPT ![s].pc = "remove"]
  /\ UNCHANGED <<onceVars, mgrVars, persistVars, chk, upd, adm, gor, disk, histVars>>

\* _ = os.Remove(tmpPath); the rename error is returned.
Save_Remove(s) ==
  /\ sav[s].pc = "remove"
  /\ disk' = [disk EXCEPT !.tmp = NoFile]
  /\ sav' = [FdsAfterRemove EXCEPT ![s].pc = "err", ![s].done = @ + 1]
  /\ UNCHANGED <<onceVars, mgrVars, persistVars, chk, upd, adm, gor, histVars>>

\* ------------------------------------------------------------ SetPersistencePath
SetPersistencePath(t, authDir) ==
  /\ adm[t].pc = "idle"
  /\ persistencePath' = IF authDir = "" THEN persistencePath ELSE "quota_usage.json"
  /\ finalSnap' = Nil
  /\ UNCHANGED <<onceVars, mgrVars, stopAutoSave, autoSaveRunning, chans, closed, panicked,
                 threadVars, disk, expTok, expReq>>

\* ------------------------------------------------------------ StartAutoSave
Unborn == {g \in GoIds : gor[g].pc = "unborn"}
Starting == {t \in Admins : adm[t].pc = "startGo"}

\* The critical section of StartAutoSave, as the new <<stopAutoSave, autoSaveRunning,
\* chans>>, and whether the call goes on to start the goroutine.
StartSection_NoGuard ==
  [stop |-> chans + 1, running |-> TRUE, chans |-> chans + 1, go |-> TRUE]

\* A StartAutoSave that makes a channel only when there is none yet.
StartSection_KeepsChannel ==
  IF autoSaveRunning
  THEN [stop |-> stopAutoSave, running |-> autoSaveRunning, chans |-> chans, go |-> FALSE]
  ELSE IF stopAutoSave # 0
  THEN [stop |-> stopAutoSave, running |-> TRUE, chans |-> chans, go |-> TRUE]
  ELSE [stop |-> chans + 1, running |-> TRUE, chans |-> chans + 1, go |-> TRUE]

StartSection ==
  IF autoSaveRunning
  THEN [stop |-> stopAutoSave, running |-> autoSaveRunning, chans |-> chans, go |-> FALSE]
  ELSE [stop |-> chans + 1, running |-> TRUE, chans |-> chans + 1, go |-> TRUE]

StartAutoSave(t) ==
  /\ adm[t].pc = "idle"
  /\ autoSaveRunning \/ Cardinality(Starting) < Cardinality(Unborn)
  /\ stopAutoSave' = StartSection.stop
  /\ autoSaveRunning' = StartSection.running
  /\ chans' = StartSection.chans
  /\ adm' = [adm EXCEPT ![t].pc = IF StartSection.go THEN "startGo" ELSE "startRet"]
  /\ finalSnap' = Nil
  /\ UNCHANGED <<onceVars, mgrVars, persistencePath, closed, panicked, chk, upd, gor, sav, disk,
                 expTok, expReq>>

\* go func() { ticker := time.NewTicker(autoSaveInterval); ... }()
StartAutoSave_Go(t) ==
  /\ adm[t].pc = "startGo"
  /\ Unborn # {}
  /\ gor' = [gor EXCEPT ![CHOOSE g \in Unborn : TRUE].pc = "select"]
  /\ adm' = [adm EXCEPT ![t].pc = "idle"]
  /\ UNCHANGED <<onceVars, mgrVars, persistVars, chk, upd, sav, disk, histVars>>

\* The early return of a call that found autosave running.
StartAutoSave_Return(t) ==
  /\ adm[t].pc = "startRet"
  /\ adm' = [adm EXCEPT ![t].pc = "idle"]
  /\ UNCHANGED <<onceVars, mgrVars, persistVars, chk, upd, gor, sav, disk, histVars>>

\* ------------------------------------------------------------ the autosave goroutine
\* The select statement evaluates the variable stopAutoSave and then waits.
Go_Select(g) ==
  /\ gor[g].pc = "select"
  /\ gor' = [gor EXCEPT ![g].pc = "wait", ![g].ch = stopAutoSave]
  /\ UNCHANGED <<onceVars, mgrVars, persistVars, chk, upd, adm, sav, disk, histVars>>

\* case <-ticker.C: SaveUsageToFile()
Go_Tick(g) ==
  /\ gor[g].pc = "wait"
  /\ gor' = [gor EXCEPT ![g].pc = "save"]
  /\ sav' = [sav EXCEPT ![g] = [NoSave EXCEPT !.pc = "path"]]
  /\ UNCHANGED <<onceVars, mgrVars, persistVars, chk, upd, adm, disk, histVars>>

\* A loop that a failed save ends.
Go_Saved_StopsOnError(g) ==
  /\ gor[g].pc = "save"
  /\ sav[g].pc \in {"ok", "err"}
  /\ gor' = [gor EXCEPT ![g].pc = IF sav[g].pc = "err" THEN "done" ELSE "wait",
                        ![g].ch = stopAutoSave]
  /\ sav' = [sav EXCEPT ![g] = NoSave]
  /\ UNCHANGED <<onceVars, mgrVars, persistVars, chk, upd, adm, disk, histVars>>

\* The save returned (its error is logged); the loop comes back to the select.
Go_Saved(g) ==
  /\ gor[g].pc = "save"
  /\ sav[g].pc \in {"ok", "err"}
  /\ gor' = [gor EXCEPT ![g].pc = "wait", ![g].ch = stopAutoSave]
  /\ sav' = [sav EXCEPT ![g] = NoSave]
  /\ UNCHANGED <<onceVars, mgrVars, persistVars, chk, upd, adm, disk, histVars>>

\* case <-stopAutoSave: return, when the channel it waits on is closed.
Go_Stopped(g) ==
  /\ gor[g].pc = "wait"
  /\ gor[g].ch \in closed
  /\ gor' = [gor EXCEPT ![g].pc = "done"]
  /\ UNCHANGED <<onceVars, mgrVars, persistVars, chk, upd, adm, sav, disk, histVars>>

\* ------------------------------------------------------------ StopAutoSave
\* The critical section of StopAutoSave when autosave is running: close(stopAutoSave)
\* panics on a nil or closed channel.
StopSection_KeepsFlag ==
  IF stopAutoSave = 0 \/ stopAutoSave \in closed
  THEN [closed |-> closed, running |-> autoSaveRunning, panicked |-> TRUE]
  ELSE [closed |-> closed \cup {stopAutoSave}, running |-> autoSaveRunning,
        panicked |-> panicked]

StopSection ==
  IF stopAutoSave = 0 \/ stopAutoSave \in closed
  THEN [closed |-> closed, running |-> autoSaveRunning, panicked |-> TRUE]
  ELSE [closed |-> closed \cup {stopAutoSave}, running |-> FALSE, panicked |-> panicked]

\* A StopAutoSave without the autoSaveRunning test.
StopAutoSave_NoGuard(t) ==
  /\ adm[t].pc = "idle"
  /\ finalSnap' = Nil
  /\ closed' = StopSection.closed
  /\ autoSaveRunning' = StopSection.running
  /\ panicked' = StopSection.panicked
  /\ adm' = [adm EXCEPT ![t].pc = IF StopSection.panicked THEN "panic" ELSE "stopSave",
                        ![t].closedCh = stopAutoSave]
  /\ sav' = [sav EXCEPT ![t] = IF StopSection.panicked THEN NoSave
                               ELSE [NoSave EXCEPT !.pc = "path"]]
  /\ UNCHANGED <<onceVars, mgrVars, persistencePath, stopAutoSave, chans, chk, upd, gor, disk,
                 expTok, expReq>>

StopAutoSave(t) ==
  /\ adm[t].pc = "idle"
  /\ finalSnap' = Nil
  /\ IF ~autoSaveRunning
     THEN /\ adm' = [adm EXCEPT ![t].pc = "stopRet"]
          /\ UNCHANGED <<onceVars, closed, autoSaveRunning, panicked, sav>>
     ELSE /\ closed' = StopSection.closed
          /\ autoSaveRunning' = StopSection.running
          /\ panicked' = StopSection.panicked
          /\ adm' = [adm EXCEPT ![t].pc = IF StopSection.panicked THEN "panic" ELSE "stopSave",
                                ![t].closedCh = stopAutoSave]
          /\ sav' = [sav EXCEPT ![t] = IF StopSection.panicked THEN NoSave
                                       ELSE [NoSave EXCEPT !.pc = "path"]]
  /\ UNCHANGED <<onceVars, mgrVars, persistencePath, stopAutoSave, chans, chk, upd, gor, disk,
                 expTok, expReq>>

\* The final save returned; its outcome is logged and StopAutoSave returns.
StopAutoSave_Return(t) ==
  /\ adm[t].pc = "stopSave"
  /\ sav[t].pc \in {"ok", "err"}
  /\ adm' = [adm EXCEPT ![t] = IdleAdm]
  /\ sav' = [sav EXCEPT ![t] = NoSave]
  /\ finalSnap' = IF /\ sav[t].pc = "ok"
                      /\ sav[t].data = Marshal(AllUsage)
                      /\ \A u \in Updaters : upd[u].pc = "idle"
                   THEN Full(sav[t].data) ELSE Nil
  /\ UNCHANGED <<onceVars, mgrVars, persistVars, chk, upd, gor, disk, expTok, expReq>>

\* The early return of a call that found autosave not running.
StopAutoSave_NotRunning(t) ==
  /\ adm[t].pc = "stopRet"
  /\ adm' = [adm EXCEPT ![t].pc = "idle"]
  /\ UNCHANGED <<onceVars, mgrVars, persistVars, chk, upd, gor, sav, disk, histVars>>

\* ------------------------------------------------------------ an explicit save
SaveUsageToFile(t) ==
  /\ adm[t].pc = "idle"
  /\ adm' = [adm EXCEPT ![t].pc = "save"]
  /\ sav' = [sav EXCEPT ![t] = [NoSave EXCEPT !.pc = "path"]]
  /\ finalSnap' = Nil
  /\ UNCHANGED <<onceVars, mgrVars, persistVars, chk, upd, gor, disk, expTok, expReq>>

SaveUsageToFile_Return(t) ==
  /\ adm[t].pc = "save"
  /\ sav[t].pc \in {"ok", "err"}
  /\ adm' = [adm EXCEPT ![t] = [IdleAdm EXCEPT !.saved = IF sav[t].pc = "ok"
                                                         THEN sav[t].snap
                                                         ELSE adm[t].saved]]
  /\ sav' = [sav EXCEPT ![t] = NoSave]
  /\ UNCHANGED <<onceVars, mgrVars, persistVars, chk, upd, gor, disk, histVars>>

\* ------------------------------------------------------------ LoadUsageFromFile
\* The path is read; os.ReadFile; json.Unmarshal.  No path, a missing file and a
\* document that does not parse all return before the ledger is touched.
LoadUsageFromFile_Read(path, f) ==
  IF path = "" THEN [err |-> "path", usage |-> <<>>]
  ELSE IF f.st = "absent" THEN [err |-> "nil", usage |-> <<>>]
  ELSE Unmarshal(f)

LoadUsageFromFile(t) ==
  /\ adm[t].pc = "idle"
  /\ finalSnap' = Nil
  /\ LET r == LoadUsageFromFile_Read(persistencePath, disk.real) IN
       adm' = [adm EXCEPT ![t].pc = IF r.err = "nil" THEN "load" ELSE "loadRet",
                          ![t].doc = r.usage,
                          ![t].pending = DOMAIN r.usage,
                          ![t].err = r.err,
                          ![t].fresh = /\ \A k \in Keys : usage[k] = Nil
                                       /\ \A u \in Updaters : upd[u].pc = "idle"]
  /\ UNCHANGED <<onceVars, mgrVars, persistVars, chk, upd, gor, sav, disk, expTok, expReq>>

\* for apiKey, usage := range persisted.Usage { manager.SetUsage(apiKey, usage) }
LoadUsageFromFile_SetUsage(t, k) ==
  /\ adm[t].pc = "load"
  /\ k \in adm[t].pending
  /\ SetUsage(k, adm[t].doc[k])
  /\ adm' = [adm EXCEPT ![t].pending = @ \ {k}]
  /\ UNCHANGED <<onceVars, policies, pricing, mu, now, persistVars, upd, gor, sav, disk, finalSnap>>

\* The loop is over, or there was none: the call has its result.
LoadUsageFromFile_Done(t) ==
  /\ adm[t].pc = "load"
  /\ adm[t].pending = {}
  /\ adm' = [adm EXCEPT ![t].pc = "loadRet"]
  /\ UNCHANGED <<onceVars, mgrVars, persistVars, chk, upd, gor, sav, disk, histVars>>

LoadUsageFromFile_Return(t) ==
  /\ adm[t].pc = "loadRet"
  /\ adm' = [adm EXCEPT ![t] = [IdleAdm EXCEPT !.saved = adm[t].saved]]
  /\ UNCHANGED <<onceVars, mgrVars, persistVars, chk, upd, gor, sav, disk, histVars>>

\* ------------------------------------------------------------ initial state
\* The state after GetManager() and before SetPersistencePath: empty maps, no
\* path, a nil stop channel, an empty auth directory.
Started(start) ==
  /\ policies = [k \in Keys |-> Nil]
  /\ usage = [k \in Keys |-> Nil]
  /\ pricing = InitPricing
  /\ mu = "free"
  /\ now = start
  /\ chk = [t \in Checkers |-> IdleChk]
  /\ upd = [t \in Updaters |-> IdleUpd]
  /\ adm = [t \in Admins |-> IdleAdm]
  /\ gor = [g \in GoIds |-> NoGo]
  /\ sav = [s \in Savers |-> NoSave]
  /\ persistencePath = ""
  /\ stopAutoSave = 0
  /\ autoSaveRunning = FALSE
  /\ chans = 0
  /\ closed = {}
  /\ panicked = FALSE
  /\ disk = [real |-> NoFile, tmp |-> NoFile]
  /\ expTok = [k \in Keys |-> 0]
  /\ expReq = [k \in Keys |-> 0]
  /\ finalSnap = Nil
  /\ singletons = [w \in Singletons |-> NoOnce]
  /\ acc = [t \in Accessors |-> IdleAcc]

Init == Started(0)

\* ------------------------------------------------------------ next-state relations
CheckQuota(T, K) ==
  \/ \E t \in T, k \in K, m \in Models : CheckQuota_GetPolicy(t, k, m)
  \/ \E t \in T : CheckQuota_GetUsage(t)
  \/ \E t \in T : CheckQuota_PolicyChecks(t)
  \/ \E t \in T : CheckQuota_TokenLimit(t)
  \/ \E t \in T : CheckQuota_CostLimit(t)
  \/ \E t \in T : CheckQuota_RemainingTokens(t)
  \/ \E t \in T : CheckQuota_RemainingCost(t)
  \/ \E t \in T : CheckQuota_Return(t)

UpdateUsage(T, K, I, cap) ==
  \/ \E t \in T, k \in K, in \in I : UpdateUsage_Call(t, k, in, cap)
  \/ \E t \in T : UpdateUsage_Lock(t)
  \/ \E t \in T : UpdateUsage_LoadTokens(t)
  \/ \E t \in T : UpdateUsage_StoreTokens(t)
  \/ \E t \in T : UpdateUsage_LoadCost(t)
  \/ \E t \in T : UpdateUsage_StoreCost(t)
  \/ \E t \in T : UpdateUsage_LoadRequests(t)
  \/ \E t \in T : UpdateUsage_StoreRequests(t)

GetQuotaStatus(T, K) ==
  \/ \E t \in T, k \in K : GetQuotaStatus_GetPolicy(t, k)
  \/ \E t \in T : GetQuotaStatus_GetUsage(t)
  \/ \E t \in T : GetQuotaStatus_Build(t)
  \/ \E t \in T : GetQuotaStatus_Return(t)

Resets(T, K) ==
  \/ \E t \in T, k \in K : ResetUsage(t, k)
  \/ \E t \in T : ResetAllUsage(t)

Saves(S) ==
  \/ \E s \in S : Save_Path(s)
  \/ \E s \in S : Save_Snapshot(s)
  \/ \E s \in S : Save_Open(s)
  \/ \E s \in S : Save_Write(s)
  \/ \E s \in S : Save_Rename(s)
  \/ \E s \in S : Save_Remove(s)

\* Failures of the file system under a save.
DiskFailures(S) ==
  \/ \E s \in S : Save_OpenFails(s)
  \/ \E s \in S : Save_WriteFails(s)
  \/ \E s \in S : Save_RenameFails(s)

AutoSave(T, S) ==
  \/ \E t \in T : StartAutoSave(t)
  \/ \E t \in T : StartAutoSave_Go(t)
  \/ \E t \in T : StartAutoSave_Return(t)
  \/ \E t \in S : StopAutoSave(t)
  \/ \E t \in S : StopAutoSave_Return(t)
  \/ \E t \in S : StopAutoSave_NotRunning(t)
  \/ \E g \in GoIds : Go_Select(g)
  \/ \E g \in GoIds : Go_Tick(g)
  \/ \E g \in GoIds : Go_Saved(g)
  \/ \E g \in GoIds : Go_Stopped(g)

Files(T, K) ==
  \/ \E t \in T, d \in {"", "auth"} : SetPersistencePath(t, d)
  \/ \E t \in T : SaveUsageToFile(t)
  \/ \E t \in T : SaveUsageToFile_Return(t)
  \/ \E t \in T : LoadUsageFromFile(t)
  \/ \E t \in T, k \in K : LoadUsageFromFile_SetUsage(t, k)
  \/ \E t \in T : LoadUsageFromFile_Done(t)
  \/ \E t \in T : LoadUsageFromFile_Return(t)

\* The decision engine: one checker against one updater, policy reloads, resets
\* and the clock.
QuotaNext ==
  \/ CheckQuota(Checkers, {"k1"})
  \/ UpdateUsage({"u1"}, {"k1"}, QuotaInputs, QuotaRequests)
  \/ \E cfg \in Configs \cup {Nil} : LoadPolicies("a1", cfg)
  \/ Resets({"a1"}, {"k1"})
  \/ Tick

SpecQuota == Init /\ [][QuotaNext]_vars

\* The ledger: two updaters against resets and row creation.
LedgerNext ==
  \/ UpdateUsage(Updaters, Keys, UpdateInputs, LedgerRequests)
  \/ Resets({"a1"}, Keys)
  \/ \E k \in Keys : GetUsage("a1", k)

SpecLedger == Init /\ [][LedgerNext]_vars

\* The snapshot file: traffic on one key against one thread that sets the path,
\* saves, loads and resets, on a file system that may fail.
SnapshotNext ==
  \/ UpdateUsage({"u1"}, {"k1"}, SnapshotInputs, SnapshotRequests)
  \/ Files({"a1"}, {"k1"})
  \/ Saves({"a1"})
  \/ DiskFailures({"a1"})
  \/ Resets({"a1"}, {"k1"})

SpecSnapshot == Init /\ [][SnapshotNext]_vars

\* The persistence controller of the quota ledger: a thread that sets the path,
\* starts and stops autosave and creates a row, a second thread that starts
\* autosave, and the autosave goroutines.
PersistNext ==
  \/ AutoSave(Admins, {"a1"})
  \/ Saves({"a1"} \cup GoIds)
  \/ \E d \in {"", "auth"} : SetPersistencePath("a1", d)
  \/ GetUsage("a1", "k1")

SpecPersist == Init /\ [][PersistNext]_vars

\* The round trip of the ledger through the snapshot file: saves, resets and loads
\* by one thread, requests served while no load is in hand.
RoundTripNext ==
  \/ /\ adm["a1"].pc \notin {"load", "loadRet"}
     /\ UpdateUsage({"u1"}, Keys, SnapshotInputs, RoundTripRequests)
  \/ Files({"a1"}, Keys)
  \/ Saves({"a1"})
  \/ DiskFailures({"a1"})
  \/ Resets({"a1"}, Keys)

SpecRoundTrip == Init /\ [][RoundTripNext]_vars

\* Loads against two threads that save: the file a load reads may be one the
\* saves left incomplete.
LoadNext ==
  \/ UpdateUsage({"u1"}, {"k1"}, SnapshotInputs, LoadRequests)
  \/ Files({"a1"}, {"k1"})
  \/ SaveUsageToFile("a2")
  \/ SaveUsageToFile_Return("a2")
  \/ Saves(Admins)
  \/ DiskFailures({"a1"})

SpecLoad == Init /\ [][LoadNext]_vars

\* Resets against requests on two keys, policy reloads and a reader of the ledger.
ResetNext ==
  \/ UpdateUsage({"u1"}, Keys, QuotaInputs, ResetRequests)
  \/ Resets({"a1"}, Keys)
  \/ \E cfg \in {c \in Configs : HasModelRestriction(c["k1"])} : LoadPolicies("a1", cfg)
  \/ AllUsage_Call("a1")

SpecReset == Init /\ [][ResetNext]_vars

\* Callers of AllUsage and AllPolicies that write to what they were returned,
\* against requests and policy reloads.
CopiesNext ==
  \/ UpdateUsage({"u1"}, {"k1"}, SnapshotInputs, CopyRequests)
  \/ \E cfg \in Configs : LoadPolicies("a1", cfg)
  \/ AllPolicies_Call("a1")
  \/ AllUsage_Call("a1")
  \/ \E k \in Keys : Returned_Delete("a1", k)
  \/ \E k \in Keys : Returned_SetMaxTokens("a1", k, LimitTokens + 1)
  \/ \E k \in Keys : Returned_SetTotalTokens("a1", k, LimitTokens + 1)
  \/ \E k \in Keys, m \in Models : Returned_SetAllowedModel("a1", k, 1, m)
  \/ Returned_Drop("a1")

SpecCopies == Init /\ [][CopiesNext]_vars

\* Policy reloads, statement by statement, against checks on both keys.
ReloadNext ==
  \/ CheckQuota(Checkers, Keys)
  \/ \E cfg \in ReloadConfigs : LoadPolicies_Lock("a1", cfg)
  \/ \E k \in Keys : LoadPolicies_Store("a1", k)
  \/ LoadPolicies_Unlock("a1")

SpecReload == Init /\ [][ReloadNext]_vars

\* Checks of a key whose policy only expires, by a process started at any instant.
ExpiryNext ==
  \/ CheckQuota(Checkers, {"k1"})
  \/ \E p \in ExpiryPolicies : LoadPolicies("a1", [k \in Keys |-> IF k = "k1" THEN p ELSE Nil])

SpecExpiry == (\E t \in Instants : Started(t)) /\ [][ExpiryNext]_vars

\* The model names of the allow-list runs: m1 and m2, and m1 in capitals.
AllowModels == Models \cup {"M1"}

\* Policies that restrict models only, or models and the date.
AllowPolicies ==
  {[allowedModels |-> a, maxTokens |-> 0, maxCostUSD |-> 0, expiresAt |-> e] :
     a \in {<<>>, <<"m1">>, <<"m2", "m1">>},
     e \in {NoExpiry, RFCExpiry(ExpiryInstant)}}

\* Checks of any model name against a key whose policy lists models.
AllowListNext ==
  \/ \E m \in AllowModels : CheckQuota_GetPolicy("c1", "k1", m)
  \/ CheckQuota_GetUsage("c1")
  \/ CheckQuota_PolicyChecks("c1")
  \/ CheckQuota_TokenLimit("c1")
  \/ CheckQuota_CostLimit("c1")
  \/ CheckQuota_RemainingTokens("c1")
  \/ CheckQuota_RemainingCost("c1")
  \/ CheckQuota_Return("c1")
  \/ \E p \in AllowPolicies :
       LoadPolicies("a1", [k \in Keys |-> IF k = "k1" THEN p ELSE Nil])
  \/ Tick

SpecAllowList == Init /\ [][AllowListNext]_vars

\* The pricing catalog: file loads and defaults in any order, against requests.
PricingNext ==
  \/ \E file \in PricingFiles : PricingManager_LoadFromFile("a1", file)
  \/ \E defaults \in PricingDefaults : SetDefaultPricing("a1", defaults)
  \/ UpdateUsage({"u1"}, {"k1"}, UpdateInputs, PricingRequests)

SpecPricing == Init /\ [][PricingNext]_vars

\* Priced calls: the cost of every small request under every catalog.
CostNext ==
  \/ \E file \in PricingFiles : PricingManager_LoadFromFile("a1", file)
  \/ \E x \in Models, i \in 0..CostTokens, o \in 0..CostTokens, c \in 0..CostTokens :
       PricingManager_CalculateCost("u1", x, i, o, c)

SpecCost == Init /\ [][CostNext]_vars

\* The singletons: concurrent calls of GetManager and GetPricingManager.
OnceNext ==
  \/ \E t \in Accessors, w \in Singletons : Get_Call(t, w)
  \/ \E t \in Accessors, w \in Singletons : Once_Do(t, w)
  \/ \E t \in Accessors, w \in Singletons : Once_Lock(t, w)
  \/ \E t \in Accessors, w \in Singletons : Once_Check(t, w)
  \/ \E t \in Accessors : GetPricingManager_New(t)
  \/ \E t \in Accessors : GetManager_GetPricing(t)
  \/ \E t \in Accessors : GetManager_New(t)
  \/ \E t \in Accessors, w \in Singletons : Once_Store(t, w)
  \/ \E t \in Accessors, w \in Singletons : Once_Unlock(t, w)
  \/ \E t \in Accessors, w \in Singletons : Get_Return(t, w)
  \/ \E t \in Accessors : Get_End(t)

SpecOnce == Init /\ [][OnceNext]_vars

\* The pointers a check holds: checks of a key whose row exists, against further
\* requests, resets and policy reloads.
PointersNext ==
  \/ CheckQuota({"c1"}, {"k1"})
  \/ UpdateUsage({"u1"}, {"k1"}, SnapshotInputs, PointerRequests)
  \/ \E cfg \in Configs : LoadPolicies("a1", cfg)
  \/ Resets({"a1"}, {"k1"})

SpecPointers == Init /\ [][PointersNext]_vars

\* A load of a snapshot of two keys into a ledger that was reset, against a
\* thread that calls AllUsage.
MergeNext ==
  \/ UpdateUsage({"u1"}, Keys, SnapshotInputs, MergeRequests)
  \/ SetPersistencePath("a1", "auth")
  \/ SaveUsageToFile("a1")
  \/ Save_Path("a1") \/ Save_Snapshot("a1") \/ Save_Open("a1")
  \/ Save_Write("a1") \/ Save_Rename("a1")
  \/ SaveUsageToFile_Return("a1")
  \/ ResetAllUsage("a1")
  \/ LoadUsageFromFile("a1")
  \/ \E k \in Keys : LoadUsageFromFile_SetUsage("a1", k)
  \/ LoadUsageFromFile_Done("a1")
  \/ LoadUsageFromFile_Return("a1")
  \/ AllUsage_Call("a2")

SpecMerge == Init /\ [][MergeNext]_vars

\* Checks and updates that never overlap: an update is called only while no
\* check is in hand, a check only while no update is; reloads and resets at any
\* time.
SequentialNext ==
  \/ /\ \A u \in Updaters : upd[u].pc = "idle"
     /\ CheckQuota({"c1"}, {"k1"})
  \/ /\ chk["c1"].pc = "idle"
     /\ UpdateUsage({"u1"}, {"k1"}, UpdateInputs, SequentialRequests)
  \/ \E cfg \in Configs : LoadPolicies("a1", cfg)
  \/ Resets({"a1"}, {"k1"})
  \/ Tick

SpecSequential == Init /\ [][SequentialNext]_vars

\* The stop channel: both threads start and stop autosave; no path is set, so
\* every save returns at once with its error.
ChannelNext ==
  \/ AutoSave(Admins, Admins)
  \/ \E s \in Savers : Save_Path(s)

SpecChannel == Init /\ [][ChannelNext]_vars

\* The readers: checks and status queries of both keys, against requests for
\* one of them, policy reloads and the clock.
ReadersNext ==
  \/ CheckQuota({"c1"}, Keys)
  \/ GetQuotaStatus({"c1"}, Keys)
  \/ UpdateUsage({"u1"}, {"k1"}, QuotaInputs, ReaderRequests)
  \/ \E cfg \in ReaderConfigs : LoadPolicies("a1", cfg)
  \/ Tick

SpecReaders == Init /\ [][ReadersNext]_vars

\* The request pipeline: one request at a time through Middleware, the handler and
\* PostRequestMiddleware, against policy reloads.
RequestNext ==
  \/ \E m \in Models : CheckQuota_GetPolicy("c1", "k1", m)
  \/ CheckQuota_GetUsage("c1")
  \/ CheckQuota_PolicyChecks("c1")
  \/ CheckQuota_TokenLimit("c1")
  \/ CheckQuota_CostLimit("c1")
  \/ CheckQuota_RemainingTokens("c1")
  \/ CheckQuota_RemainingCost("c1")
  \/ Middleware_Abort("c1")
  \/ Middleware_Next("c1")
  \/ \E out \in Outcomes : Handler("c1", out, RequestRequests)
  \/ PostRequestMiddleware("c1")
  \/ PostRequestMiddleware_Return("c1")
  \/ Request_End("c1")
  \/ UpdateUsage_Lock("u1")
  \/ UpdateUsage_LoadTokens("u1")
  \/ UpdateUsage_StoreTokens("u1")
  \/ UpdateUsage_LoadCost("u1")
  \/ UpdateUsage_StoreCost("u1")
  \/ UpdateUsage_LoadRequests("u1")
  \/ UpdateUsage_StoreRequests("u1")
  \/ \E cfg \in Configs : LoadPolicies("a1", cfg)

SpecRequest == Init /\ [][RequestNext]_vars

\* The request pipeline with the two middlewares chained in either order: a
\* denied request returns through PostRequestMiddleware when that one wraps
\* Middleware, and skips it when it comes later in the chain.
ChainNext ==
  \/ RequestNext
  \/ Middleware_Abort_PostLater("c1")

SpecChain == Init /\ [][ChainNext]_vars

Next == QuotaNext \/ LedgerNext \/ SnapshotNext \/ PersistNext \/ RequestNext \/ RoundTripNext \/ LoadNext \/ ResetNext \/ CopiesNext \/ ReloadNext \/ ExpiryNext \/ AllowListNext \/ PricingNext \/ CostNext \/ OnceNext \/ PointersNext \/ MergeNext \/ SequentialNext \/ ChannelNext \/ ReadersNext \/ ChainNext

Spec == Init /\ [][Next]_vars

\* ------------------------------------------------------------ properties: CheckQuota
\* The kind the fixed order gives for a policy p, a model, the instant t, whether the
\* key has a row, and the row's counters: the first failing check, or "none".
FirstFailing(p, model, t, hasRow, tok, cost) ==
  IF IsExpired(p, t) THEN "api_key_expired"
  ELSE IF ~IsModelAllowed(p, model) THEN "model_not_allowed"
  ELSE IF HasTokenLimit(p) /\ hasRow /\ tok >= p.maxTokens THEN "token_limit_exceeded"
  ELSE IF HasCostLimit(p) /\ hasRow /\ cost >= p.maxCostUSD THEN "cost_limit_exceeded"
  ELSE "none"

\* The counters a finished check compared; for one it never compared (an earlier
\* check failed), what the row it holds shows.
UsedTokens(c) ==
  IF c.seenTok.set THEN c.seenTok.v
  ELSE IF c.usage.kind = "nil" THEN 0 ELSE Deref(c.usage, c.key).tokens

UsedCost(c) ==
  IF c.seenCost.set THEN c.seenCost.v
  ELSE IF c.usage.kind = "nil" THEN 0 ELSE Deref(c.usage, c.key).cost

\* C1: for a key with a policy, CheckQuota returns the kind of the first failing
\* check in the order expired, model_not_allowed, token_limit_exceeded,
\* cost_limit_exceeded (taken on the instant and the counters it read), and it
\* returns allowed exactly when no check fails.
C1_FirstFailingCheck ==
  \A t \in Checkers :
    chk[t].pc = "done" /\ chk[t].policy # Nil =>
      LET c == chk[t]
          kind == FirstFailing(c.policy, c.model, c.seenNow.v, c.usage.kind # "nil",
                               UsedTokens(c), UsedCost(c))
      IN /\ c.res.kind = kind
         /\ c.res.allowed = (kind = "none")

\* A finished check for which all four checks fail at once and that reports the
\* expiration.
C1_Witness ==
  \E t \in Checkers :
    LET c == chk[t]
    IN /\ c.pc = "done" /\ c.policy # Nil
       /\ IsExpired(c.policy, c.seenNow.v)
       /\ ~IsModelAllowed(c.policy, c.model)
       /\ HasTokenLimit(c.policy) /\ HasCostLimit(c.policy)
       /\ c.usage.kind # "nil"
       /\ UsedTokens(c) >= c.policy.maxTokens
       /\ UsedCost(c) >= c.policy.maxCostUSD
       /\ c.res.kind = "api_key_expired"

\* C2 as stated: a check whose policy has maxTokens = L > 0 and that found the key's
\* row, not reset since, with totalTokens >= L returns denied with kind
\* token_limit_exceeded, whatever the model.
C2_AlwaysTokenLimitExceeded ==
  \A t \in Checkers :
    LET c == chk[t]
    IN /\ c.pc = "done" /\ HasTokenLimit(c.policy)
       /\ c.usage.kind = "live"
       /\ c.tokAtGet.set /\ c.tokAtGet.v >= c.policy.maxTokens
       => ~c.res.allowed /\ c.res.kind = "token_limit_exceeded"

\* C2, amended: a check whose policy has maxTokens = L > 0 and that found the key's
\* row with totalTokens >= L returns denied, whatever the model: with kind
\* api_key_expired when the policy is expired, else model_not_allowed when the
\* policy does not allow the model, else token_limit_exceeded.
C2_DeniedAtTokenLimit ==
  \A t \in Checkers :
    LET c == chk[t]
    IN /\ c.pc = "done" /\ HasTokenLimit(c.policy)
       /\ c.tokAtGet.set /\ c.tokAtGet.v >= c.policy.maxTokens
       => /\ ~c.res.allowed
          /\ c.res.kind = IF IsExpired(c.policy, c.seenNow.v) THEN "api_key_expired"
                          ELSE IF ~IsModelAllowed(c.policy, c.model)
                               THEN "model_not_allowed"
                               ELSE "token_limit_exceeded"

\* A finished check of a key at its token limit, asked for the model the pricing
\* catalog does not know, that reports token_limit_exceeded.
C2_Witness ==
  \E t \in Checkers :
    LET c == chk[t]
    IN /\ c.pc = "done" /\ HasTokenLimit(c.policy)
       /\ c.tokAtGet.set /\ c.tokAtGet.v >= c.policy.maxTokens
       /\ c.model = "m2"
       /\ c.res.kind = "token_limit_exceeded"

\* C10: for a key without a policy CheckQuota returns allowed, with no error and
\* with neither remaining margin, whatever the model and the row.
C10_NoPolicyAllowed ==
  \A t \in Checkers :
    chk[t].pc = "done" /\ chk[t].policy = Nil =>
      chk[t].res = [allowed |-> TRUE, kind |-> "none", remTokens |-> None,
                    remCost |-> None, details |-> Nil]

\* A finished check of a key without a policy whose row is at the budgets the
\* policies use.
C10_Witness ==
  \E t \in Checkers :
    LET c == chk[t]
    IN /\ c.pc = "done" /\ c.policy = Nil /\ policies[c.key] = Nil
       /\ c.usage.kind = "live"
       /\ Tok(c.key) >= LimitTokens /\ Cost(c.key) >= LimitCost
       /\ c.res.allowed

\* ------------------------------------------------------------ properties: UpdateUsage
\* What the invoked updates of key k have not yet added to the row.
InFlightTokens(k) ==
  SetSum([t \in Updaters |-> upd[t].input + upd[t].output],
         {t \in Updaters : upd[t].key = k /\ upd[t].pc \in {"lock", "ldTokens", "stTokens"}})

InFlightRequests(k) == Cardinality({t \in Updaters : upd[t].key = k /\ upd[t].pc # "idle"})

\* C3: under every interleaving of concurrent UpdateUsage calls on a key no increment
\* is lost: the row's totalTokens and totalRequests, with what the calls in flight
\* still have to add, are the sums over the calls invoked since the row was last
\* reset; so when the calls have returned, totalTokens is T higher and totalRequests
\* N higher, also when the first call created the row.
C3_NoLostUpdate ==
  \A k \in Keys :
    /\ Tok(k) + InFlightTokens(k) = expTok[k]
    /\ Req(k) + InFlightRequests(k) = expReq[k]

\* Two calls on one key at once: one created the row and has added its token, the
\* other waits for the lock.
C3_Witness ==
  /\ upd["u1"].pc = "lock" /\ upd["u1"].key = "k1"
  /\ upd["u2"].pc = "stRequests" /\ upd["u2"].key = "k1"
  /\ expReq["k1"] = 2 /\ Req("k1") = 0
  /\ Tok("k1") = 1 /\ expTok["k1"] = 2

\* ------------------------------------------------------------ properties: the ledger and its file
ResetStep ==
  \E t \in Admins : ResetAllUsage(t) \/ \E k \in Keys : ResetUsage(t, k)

\* C5 as stated: no step other than ResetUsage and ResetAllUsage lowers totalTokens,
\* totalCostUSD or totalRequests of a key.
C5_CountersMonotone ==
  [][~ResetStep =>
       \A k \in Keys : Tok(k)' >= Tok(k) /\ Cost(k)' >= Cost(k) /\ Req(k)' >= Req(k)]_vars

\* C4 as stated: the file at the real snapshot path is absent or holds one complete
\* snapshot.
C4_RealFileComplete == disk.real.st \in {"absent", "full"}

\* C7 as stated: after StopAutoSave returned from a successful final save, and while
\* no further operation is invoked, a complete snapshot in the snapshot file is the
\* one that final save captured, never one captured earlier.
C7_FinalSnapshotStays ==
  finalSnap # Nil /\ disk.real.st = "full" => disk.real = finalSnap

\* ------------------------------------------------------------ properties: autosave lifecycle
\* C6 as stated: when StopAutoSave, having found autosave running, is about to
\* return, the stop channel is closed, exactly one final save has completed and
\* autosave is marked not running.
C6_StoppedAtReturn ==
  \A t \in Admins :
    adm[t].pc = "stopSave" /\ sav[t].pc \in {"ok", "err"} =>
      /\ adm[t].closedCh \in closed
      /\ sav[t].done = 1
      /\ ~autoSaveRunning

\* C6, amended: the final save of StopAutoSave is one save, in progress until it
\* has completed; when StopAutoSave is about to return, the stop channel it found
\* is closed, and autosave is marked running only if a StartAutoSave has made a new
\* stop channel since.
C6_FinalSaveAtReturn ==
  \A t \in Admins :
    /\ adm[t].pc = "stopSave" =>
         sav[t].pc # "none" /\ sav[t].done = IF sav[t].pc \in {"ok", "err"} THEN 1 ELSE 0
    /\ adm[t].pc = "stopSave" /\ sav[t].pc \in {"ok", "err"} =>
         /\ adm[t].closedCh \in closed
         /\ autoSaveRunning => stopAutoSave # adm[t].closedCh /\ stopAutoSave \notin closed

\* StopAutoSave about to return from a successful final save while a StartAutoSave
\* of the other thread has started autosave again.
C6_Witness ==
  /\ adm["a1"].pc = "stopSave" /\ sav["a1"].pc = "ok"
  /\ adm["a1"].closedCh = 1
  /\ autoSaveRunning /\ stopAutoSave = 2

\* C8: a StartAutoSave that finds autosave running changes neither the stop channel
\* nor the running flag and starts no goroutine, whether the first call has
\* returned or not; every goroutine started belongs to one stop channel made.
C8_StartIdempotent ==
  /\ [](Cardinality(GoIds \ Unborn) + Cardinality(Starting) = chans)
  /\ [][\A t \in Admins :
          StartAutoSave(t) /\ autoSaveRunning =>
            /\ UNCHANGED <<onceVars, stopAutoSave, autoSaveRunning, chans, closed, gor, sav, disk>>
            /\ adm'[t].pc = "startRet"]_vars

\* A second StartAutoSave took the early return while the first call has not yet
\* started its goroutine.
C8_Witness ==
  /\ adm["a2"].pc = "startRet" /\ adm["a1"].pc = "startGo"
  /\ autoSaveRunning /\ stopAutoSave = 1 /\ chans = 1
  /\ Unborn = GoIds

\* C9: a StopAutoSave that finds autosave not running saves nothing, writes no file,
\* leaves the running flag and the stop channel as they are, does not panic and
\* returns.
C9_StopNotRunning ==
  /\ [](\A t \in Admins : adm[t].pc = "stopRet" => ENABLED StopAutoSave_NotRunning(t))
  /\ [][\A t \in Admins :
          StopAutoSave(t) /\ ~autoSaveRunning =>
            /\ UNCHANGED <<onceVars, persistVars, mgrVars, gor, sav, disk>>
            /\ adm'[t].pc = "stopRet"]_vars

\* A StopAutoSave took the early return after autosave had been stopped: the stop
\* channel is the closed one.
C9_Witness ==
  /\ adm["a1"].pc = "stopRet"
  /\ ~autoSaveRunning /\ stopAutoSave \in closed
  /\ sav["a1"].pc = "none" /\ ~panicked

\* ------------------------------------------------------------ properties: remaining margins
\* The margin limit - used of an allowed result, where used is a value the counter
\* had between the check that compared it and the return (seen when the check ran,
\* now at the latest), and zero for a key without a row.
MarginOk(margin, limit, hasRow, seen, current) ==
  /\ margin.set
  /\ IF hasRow THEN limit - current <= margin.v /\ margin.v <= limit - seen
     ELSE margin.v = limit

\* C11 as stated: an allowed result for a policy with maxTokens > 0 (maxCostUSD > 0)
\* carries remaining-tokens = maxTokens - totalTokens (remaining-cost = maxCostUSD -
\* totalCostUSD), a key without a row counting as zero usage; the margin of a limit
\* that is not set is absent.
C11_RemainingMargins ==
  \A t \in Checkers :
    LET c == chk[t]
        hasRow == c.usage.kind # "nil"
    IN c.pc = "done" /\ c.policy # Nil /\ c.res.allowed =>
         /\ IF HasTokenLimit(c.policy)
            THEN MarginOk(c.res.remTokens, c.policy.maxTokens, hasRow,
                          IF c.seenTok.set THEN c.seenTok.v ELSE 0,
                          IF hasRow THEN Deref(c.usage, c.key).tokens ELSE 0)
            ELSE c.res.remTokens = None
         /\ IF HasCostLimit(c.policy)
            THEN MarginOk(c.res.remCost, c.policy.maxCostUSD, hasRow,
                          IF c.seenCost.set THEN c.seenCost.v ELSE 0,
                          IF hasRow THEN Deref(c.usage, c.key).cost ELSE 0)
            ELSE c.res.remCost = None

\* ------------------------------------------------------------ properties: accumulation
InCall(t) == upd[t].pc \notin {"idle", "lock"}

\* C12: once the UpdateUsage calls on a key have returned, the row's totalTokens is
\* the sum of inputTokens + outputTokens over the calls since the row was last
\* absent (cached tokens add nothing) and totalRequests is their number; a call
\* has the row in the map before it adds to it.
C12_Accumulation ==
  /\ \A t \in Updaters : InCall(t) => usage[upd[t].key] # Nil
  /\ \A k \in Keys :
       (\A t \in Updaters : upd[t].pc = "idle" \/ upd[t].key # k) =>
         /\ Tok(k) = expTok[k] /\ Req(k) = expReq[k]
         /\ expReq[k] > 0 => usage[k] # Nil

\* Two calls on k1 have returned, one reporting an input token and one reporting a
\* cached token only: two requests, one token, and the cost of both.
C12_Witness ==
  /\ \A t \in Updaters : upd[t].pc = "idle"
  /\ Req("k1") = 2 /\ Tok("k1") = 1 /\ Cost("k1") = 2
  /\ expTok["k1"] = 1 /\ expReq["k1"] = 2

\* ------------------------------------------------------------ properties: the request pipeline
\* C13 as stated: for a request that passed CheckQuota and completed, UpdateUsage
\* ran exactly once, whatever the response status and the reported token counts.
C13_UpdateExactlyOnce ==
  \A t \in Checkers :
    chk[t].pc = "finished" /\ chk[t].res.allowed => chk[t].http.updates = 1

\* ------------------------------------------------------------ properties: loading the snapshot file
LoadCalled(t) == adm[t].pc = "idle" /\ adm'[t].pc \in {"load", "loadRet"}

\* C14: a load with no path set returns an error, a load of a missing file returns
\* no error, a load of a file that does not parse returns an error; none of the
\* three changes the ledger, at the call or afterwards (no row is merged).
C14_FailedLoadLeavesLedger ==
  [][\A t \in Admins :
       /\ LoadCalled(t) =>
            /\ usage' = usage
            /\ persistencePath = "" =>
                 adm'[t].err = "path" /\ adm'[t].pc = "loadRet"
            /\ persistencePath # "" /\ disk.real.st = "absent" =>
                 adm'[t].err = "nil" /\ adm'[t].pending = {}
            /\ persistencePath # "" /\ disk.real.st \in {"partial", "garbled"} =>
                 adm'[t].err = "parse" /\ adm'[t].pc = "loadRet"
       /\ adm[t].pc = "load" /\ usage' # usage /\ adm'[t] # adm[t] =>
            adm[t].err = "nil" /\ disk.real.st # "absent"
       /\ adm[t].pc = "loadRet" /\ adm'[t] # adm[t] => usage' = usage]_vars

\* A load of a file that does not parse has returned its error, the ledger
\* holding a row.
C14_Witness ==
  \E t \in Admins :
    adm[t].pc = "loadRet" /\ adm[t].err = "parse" /\ usage["k1"] # Nil

FreshRow(u) ==
  [tokens |-> u.input + u.output,
   cost |-> CalculateCost(pricing, u.model, u.input, u.output, u.cached),
   requests |-> 1]

\* C16: ResetUsage(k) removes the row of k and leaves every other row and the
\* policy store as they were; ResetAllUsage leaves no row and the policy store as
\* it was; an update that finds no row (the first after a reset) leaves a row
\* whose counters are that update's deltas, totalRequests = 1.
C16_Reset ==
  [][/\ \A t \in Admins, k \in Keys :
          ResetUsage(t, k) =>
            /\ usage'[k] = Nil
            /\ \A j \in Keys \ {k} : usage'[j] = usage[j]
            /\ policies' = policies
     /\ \A t \in Admins :
          ResetAllUsage(t) => (\A j \in Keys : usage'[j] = Nil) /\ policies' = policies
     /\ \A u \in Updaters :
          upd[u].pc = "stRequests" /\ upd'[u].pc = "idle" /\ ~upd[u].ok =>
            usage'[upd[u].key] = FreshRow(upd[u])]_vars

\* After AllUsage returned rows for both keys, the row of k1 was reset and an
\* update made it anew with other counters; the row of k2 and the policies are
\* still there.
C16_Witness ==
  /\ adm["a1"].retUsage # Nil
  /\ adm["a1"].retUsage["k1"] # Nil /\ adm["a1"].retUsage["k2"] # Nil
  /\ usage["k1"] # Nil /\ usage["k2"] # Nil
  /\ usage["k1"].requests = 1
  /\ adm["a1"].retUsage["k1"].requests = 1
  /\ usage["k1"].cost < adm["a1"].retUsage["k1"].cost
  /\ usage["k2"] = adm["a1"].retUsage["k2"]
  /\ policies["k1"] # Nil

\* ------------------------------------------------------------ properties: returned maps
\* The thread wrote to a map it holds.
WroteReturned(t) ==
  \/ adm[t].retPolicies # Nil /\ adm'[t].retPolicies # Nil
       /\ adm'[t].retPolicies # adm[t].retPolicies
  \/ adm[t].retUsage # Nil /\ adm'[t].retUsage # Nil
       /\ adm'[t].retUsage # adm[t].retUsage

\* C17 as stated: a write to a map AllUsage or AllPolicies returned (an entry, a
\* counter of a row, a scalar field of a policy, an element of a policy's
\* allowedModels) never changes the live policies or ledger, and no change of the
\* ledger changes a map returned before.
C17_ReturnedMapsAreDeep ==
  [][\A t \in Admins :
       /\ WroteReturned(t) => policies' = policies /\ usage' = usage
       /\ usage' # usage => adm'[t].retUsage = adm[t].retUsage]_vars

\* ------------------------------------------------------------ properties: policy reloads
\* C18: when LoadPolicies(P) returns the store is exactly P (a key of the old map
\* that P lacks has no policy), and the policy a check reads is the one of the map
\* in place when no reload is in hand, and during a reload the one of the old map
\* or the one of P for that key, never the absence the cleared map would show.
C18_ReloadAtomic ==
  [][/\ \A t \in Admins :
          adm[t].pc = "reload" /\ adm'[t].pc = "idle" => policies' = adm[t].cfg
     /\ \A c \in Checkers :
          chk[c].pc = "idle" /\ chk'[c].pc = "getUsage" =>
            IF \E l \in Admins : adm[l].pc = "reload"
            THEN \E l \in Admins :
                   /\ adm[l].pc = "reload"
                   /\ chk'[c].policy \in {adm[l].old[chk'[c].key], adm[l].cfg[chk'[c].key]}
            ELSE chk'[c].policy = policies[chk'[c].key]]_vars

\* A reload in hand has cleared the map and stored one of two policies: k2 had a
\* policy, will have one, and has none now; a check has read the policy of k2
\* before the reload.
C18_Witness ==
  \E l \in Admins, c \in Checkers :
    /\ adm[l].pc = "reload"
    /\ adm[l].pending = {"k2"}
    /\ policies["k1"] # Nil /\ policies["k2"] = Nil
    /\ adm[l].old["k2"] # Nil
    /\ chk[c].pc # "idle" /\ chk[c].key = "k2" /\ chk[c].policy = adm[l].old["k2"]

FoundExpired(c) == ~c.res.allowed /\ c.res.kind = "api_key_expired"

\* C20 as stated: a check made at an instant that falls, on the clocks of the
\* local zone, whatever its offset, on the day a date-only expiresAt names or
\* earlier does not find the key expired; a date a year before the local day is
\* found expired, a date a year after is not; a policy without expiresAt is never
\* found expired.
C20_EndOfLocalDay ==
  \A t \in Checkers :
    chk[t].pc = "done" /\ chk[t].policy # Nil /\ chk[t].seenNow # None =>
      LET e == chk[t].policy.expiresAt
          at == chk[t].seenNow.v
      IN  /\ e.fmt = "empty" => ~FoundExpired(chk[t])
          /\ e.fmt = "date" =>
               \A o \in (0 - MaxOffset)..MaxOffset :
                 /\ LocalDay(at, o) <= e.v => ~FoundExpired(chk[t])
                 /\ LocalDay(at, o) - YearDays = e.v => FoundExpired(chk[t])
                 /\ LocalDay(at, o) + YearDays = e.v => ~FoundExpired(chk[t])

\* ------------------------------------------------------------ properties: the model allow-list
\* The model the check of c asked for is an element of the list of its policy.
Listed(c) ==
  \E i \in 1..Len(c.policy.allowedModels) : c.policy.allowedModels[i] = c.model

\* C21 as stated: a policy with no allowedModels allows every model; with a list,
\* a model is allowed if and only if it is an element of the list, and CheckQuota
\* denies every other model with kind model_not_allowed, the requested model and
\* the list in the details.
C21_AllowList ==
  \A t \in Checkers :
    chk[t].pc = "done" /\ chk[t].policy # Nil =>
      /\ Len(chk[t].policy.allowedModels) = 0 => chk[t].res.kind # "model_not_allowed"
      /\ Len(chk[t].policy.allowedModels) > 0 /\ Listed(chk[t]) =>
           chk[t].res.kind # "model_not_allowed"
      /\ Len(chk[t].policy.allowedModels) > 0 /\ ~Listed(chk[t]) =>
           chk[t].res = ModelNotAllowed(chk[t])

\* C21, amended: the same, but a model that is not in the list is denied with
\* model_not_allowed only when the key has not expired; the check of an expired
\* key says api_key_expired whatever the model.
C21_AllowListUnlessExpired ==
  \A t \in Checkers :
    chk[t].pc = "done" /\ chk[t].policy # Nil =>
      /\ Len(chk[t].policy.allowedModels) = 0 => chk[t].res.kind # "model_not_allowed"
      /\ Len(chk[t].policy.allowedModels) > 0 /\ Listed(chk[t]) =>
           chk[t].res.kind # "model_not_allowed"
      /\ Len(chk[t].policy.allowedModels) > 0 /\ ~Listed(chk[t]) =>
           /\ ~chk[t].res.allowed
           /\ chk[t].res = IF IsExpired(chk[t].policy, chk[t].seenNow.v)
                           THEN Denied("api_key_expired")
                           ELSE ModelNotAllowed(chk[t])

\* The check of M1 against a list that holds m1 was denied with model_not_allowed.
C21_Witness ==
  \E t \in Checkers :
    /\ chk[t].pc = "done" /\ chk[t].policy # Nil
    /\ chk[t].model = "M1"
    /\ chk[t].policy.allowedModels = <<"m2", "m1">>
    /\ chk[t].res.kind = "model_not_allowed"
    /\ chk[t].res.details.requested_model = "M1"

\* ------------------------------------------------------------ properties: the pricing catalog
\* C22: a model the last loaded pricing file prices has the file's price in the
\* catalog, whether SetDefaultPricing ran before the load or after it; a
\* SetDefaultPricing leaves every price the catalog has and gives a model without
\* one the entry of the defaults.
C22_FileWins ==
  /\ [](\A t \in Admins :
          adm[t].priceFile # Nil =>
            \A x \in Models : adm[t].priceFile[x] # Nil => pricing[x] = adm[t].priceFile[x])
  /\ [][\A t \in Admins, d \in PricingDefaults :
          SetDefaultPricing(t, d) =>
            \A x \in Models :
              pricing'[x] = IF pricing[x] # Nil THEN pricing[x] ELSE d[x]]_vars

\* SetDefaultPricing ran after the load of a file, with another price for a model
\* of the file; the catalog has the price of the file.
C22_Witness ==
  \E t \in Admins, x \in Models :
    /\ adm[t].priceLast = "defaults"
    /\ adm[t].priceFile # Nil /\ adm[t].priceFile[x] = FilePrice
    /\ adm[t].priceDefaults # Nil /\ adm[t].priceDefaults[x] = DefaultPrice
    /\ pricing[x] = FilePrice

\* C24: CalculateCost is 0 for a model the catalog does not have, and the
\* UpdateUsage of such a model adds input + output to totalTokens and one to
\* totalRequests and leaves totalCostUSD as it is.
C24_UnknownModelCostsNothing ==
  [][\A u \in Updaters :
       /\ upd[u].pc = "lock" /\ upd'[u].pc = "ldTokens" /\ pricing[upd[u].model] = Nil =>
            upd'[u].dCost = 0
       /\ upd[u].pc = "stTokens" /\ upd'[u].pc = "ldCost" =>
            usage'[upd[u].key].tokens =
              usage[upd[u].key].tokens + upd[u].input + upd[u].output
       /\ upd[u].pc = "stCost" /\ upd'[u].pc = "ldRequests" /\ upd[u].dCost = 0 =>
            usage'[upd[u].key].cost = usage[upd[u].key].cost
       /\ upd[u].pc = "stRequests" /\ upd'[u].pc = "idle" =>
            usage'[upd[u].key].requests = usage[upd[u].key].requests + 1]_vars

\* An update for m2, which the catalog does not have, is about to count its
\* request: the tokens are in the row and the cost is still 0.
C24_Witness ==
  \E u \in Updaters :
    /\ upd[u].pc = "stRequests" /\ upd[u].model = "m2" /\ upd[u].output = 1
    /\ pricing["m2"] = Nil
    /\ usage[upd[u].key].tokens = 1 /\ usage[upd[u].key].cost = 0

\* The priced calls on record.
Priced == {u \in Updaters : upd[u].cost # Nil /\ upd[u].price # Nil}

EffectiveCachedPrice(price) == IF price.cached = 0 THEN price.input ELSE price.cached

\* Millionths of a dollar the formula gives, a whole number for whole prices.
FormulaMicros(price, i, o, c) ==
  i * price.input + c * EffectiveCachedPrice(price) + o * price.output

\* The formula evaluated in floating point: one sum, one division.
FormulaFloat(price, i, o, c) ==
  FDiv(FAdd(FAdd(FMul(FromInt(i), FromInt(price.input)),
                 FMul(FromInt(c), FromInt(EffectiveCachedPrice(price)))),
            FMul(FromInt(o), FromInt(price.output))), Million)

\* C23 as stated: the cost of a priced call is the value of the formula, and the
\* cost of a call is the sum of the costs of any two calls that split its tokens.
C23_CostFormula ==
  \A u \in Priced :
    /\ upd[u].cost = FormulaFloat(upd[u].price, upd[u].input, upd[u].output, upd[u].cached)
    /\ \A i \in 0..upd[u].input, o \in 0..upd[u].output, c \in 0..upd[u].cached :
         upd[u].cost =
           FAdd(CalculateCost_Float64(upd[u].price, i, o, c),
                CalculateCost_Float64(upd[u].price, upd[u].input - i,
                                      upd[u].output - o, upd[u].cached - c))

\* |cost - micros / Million| <= (micros / Million) / 2^(MantBits - 3), in whole
\* numbers: both sides times Million * 2^(-exp).
WithinRounding(cost, micros) ==
  IF micros = 0 THEN cost = FZero
  ELSE /\ cost.exp < 0
       /\ LET scaled == micros * Pow2(0 - cost.exp)
              diff == cost.mant * Million - scaled
          IN (IF diff < 0 THEN 0 - diff ELSE diff) <= scaled \div Pow2(MantBits - 3)

\* C23, amended: the cost of a priced call is the value of the formula up to
\* the rounding of the four floating-point operations behind it, a relative
\* error of at most 2^(3 - MantBits); it is exactly the formula when that is 0.
C23_CostFormulaUpToRounding ==
  \A u \in Priced :
    WithinRounding(upd[u].cost,
                   FormulaMicros(upd[u].price, upd[u].input, upd[u].output, upd[u].cached))

\* A call with tokens of all three kinds, priced with the fallback for cached
\* tokens, whose cost is not the value of the one-division formula.
C23_Witness ==
  \E u \in Priced :
    /\ upd[u].input > 0 /\ upd[u].output > 0 /\ upd[u].cached > 0
    /\ upd[u].price.cached = 0
    /\ upd[u].cost # FormulaFloat(upd[u].price, upd[u].input, upd[u].output, upd[u].cached)

\* ------------------------------------------------------------ properties: the singletons
\* C25: whatever the interleaving of the first calls, each constructor runs at
\* most once, every call of GetManager returns the one Manager and every call of
\* GetPricingManager the one PricingManager, which is the one the Manager holds.
C25_Singletons ==
  /\ \A w \in Singletons : singletons[w].built <= 1
  /\ \A t \in Accessors, w \in Singletons :
       acc[t].got[w] # {} =>
         /\ singletons[w].built = 1
         /\ singletons[w].instance # Nil
         /\ acc[t].got[w] = {singletons[w].instance}
  /\ singletons["manager"].instance # Nil =>
       singletons["manager"].instance.pricing = singletons["pricing"].instance

\* Both threads found the Once of the Manager unset, so their first calls
\* overlapped, and both calls have returned.
C25_Witness ==
  \A t \in Accessors : acc[t].slow["manager"] /\ acc[t].got["manager"] # {}

\* ------------------------------------------------------------ properties: concurrency of the saves
\* A save that has written the temporary file and not yet renamed it.
BeforeRename(s) == sav[s].pc = "rename"

\* C26: while the final save of a StopAutoSave is between its write of the
\* temporary file and its rename, no save of the autosave goroutine is.
C26_FinalSaveAlone ==
  \A t \in Admins, g \in GoIds :
    ~(adm[t].pc = "stopSave" /\ BeforeRename(t) /\ BeforeRename(g))

\* ------------------------------------------------------------ properties: reads of the checks
\* The next step of checker c reads TotalTokens of the row of its key, through
\* the pointer GetUsageReadOnly gave it.
ReadsTokens(c) ==
  /\ chk[c].pc = "tokenLimit"
  /\ HasTokenLimit(chk[c].policy)
  /\ chk[c].usage.kind = "live"

\* Updater u holds the write lock and its next step stores TotalTokens of the
\* row of key k.
WritesTokens(u, k) == mu = u /\ upd[u].pc = "stTokens" /\ upd[u].key = k

\* C27: CheckQuota reads the counters of a row only while no UpdateUsage is
\* writing that row.
C27_ReadsUnderLock ==
  \A c \in Checkers, u \in Updaters : ~(ReadsTokens(c) /\ WritesTokens(u, chk[c].key))

\* ------------------------------------------------------------ properties: what a CheckResult shows
\* The row a reader sees through the CheckResult of checker c.
RowSeen(c) ==
  IF chk[c].usage.kind = "nil" THEN Nil ELSE Deref(chk[c].usage, chk[c].key)

\* C30: while a caller holds a CheckResult, the row and the policy visible
\* through it stay what they were when the decision was made.
C30_ResultIsCopy ==
  [][\A c \in Checkers :
       chk[c].pc = "done" /\ chk'[c].pc = "done" =>
         /\ RowSeen(c)' = RowSeen(c)
         /\ chk'[c].policy = chk[c].policy]_vars

\* ------------------------------------------------------------ properties: the merge of a load
\* The load of thread t has applied some keys of its snapshot and has a key
\* still to apply whose row in the ledger is not the row of the snapshot.
PartlyApplied(t) ==
  /\ adm[t].pc = "load"
  /\ adm[t].pending # DOMAIN adm[t].doc
  /\ \E k \in adm[t].pending : usage[k] # adm[t].doc[k]

\* C28: no AllUsage reads the ledger while a load has applied part of its
\* snapshot.
C28_LoadInOneSection ==
  [][\A o \in Admins, t \in Admins : AllUsage_Call(o) => ~PartlyApplied(t)]_vars

\* ------------------------------------------------------------ properties: a save that fails
\* C29: a SaveUsageToFile that returns an error has not changed the file at the
\* real path: whatever it wrote, it wrote to the temporary file.
C29_FailedSaveKeepsFile ==
  \A s \in Savers : sav[s].pc = "err" => sav[s].wrote # "real"

\* ------------------------------------------------------------ properties: the margins of a check
\* C31: when no UpdateUsage runs between the start and the end of a CheckQuota,
\* the margins of an allowed result, where it has them, are above zero.
C31_MarginsPositive ==
  \A t \in Checkers :
    chk[t].pc = "done" /\ chk[t].res.allowed =>
      /\ chk[t].res.remTokens.set => chk[t].res.remTokens.v > 0
      /\ chk[t].res.remCost.set => chk[t].res.remCost.v > 0

\* An allowed result with a margin, for a key whose row has counted a request.
C31_Witness ==
  \E t \in Checkers :
    /\ chk[t].pc = "done" /\ chk[t].res.allowed
    /\ chk[t].res.remTokens.set \/ chk[t].res.remCost.set
    /\ chk[t].usage.kind = "live" /\ usage[chk[t].key].requests > 0

\* ------------------------------------------------------------ properties: the autosave goroutines
\* The goroutines that wait for a tick on a stop channel nobody has closed: they
\* go on saving until a later StopAutoSave.
Ticking == {g \in GoIds : gor[g].pc = "wait" /\ gor[g].ch \notin closed}

\* C32: at most one autosave goroutine is alive; in particular at most one waits
\* for ticks on an open stop channel.
C32_OneGoroutine == Cardinality(Ticking) <= 1

\* A StopAutoSave has closed the current stop channel and returned, and no
\* StartAutoSave has run since.
StopReturned ==
  /\ ~autoSaveRunning
  /\ stopAutoSave \in closed
  /\ \A t \in Admins : adm[t].pc \notin {"stopSave", "panic"}

\* C33: once StopAutoSave has returned, the goroutine it stopped starts no
\* timer-triggered save.
C33_NoSaveAfterStop ==
  [][\A g \in GoIds : Go_Tick(g) => ~StopReturned]_vars

\* ------------------------------------------------------------ properties: the stop channel
\* C34: no close of a nil or closed channel ever happens, and autosave is marked
\* running exactly when the current stop channel exists and is open.
C34_ChannelDiscipline ==
  /\ ~panicked
  /\ autoSaveRunning <=> (stopAutoSave # 0 /\ stopAutoSave \notin closed)
  /\ closed \subseteq 1..chans

\* Autosave runs on a second channel, made while the StopAutoSave that closed
\* the first one is still in its final save.
C34_Witness ==
  /\ autoSaveRunning /\ stopAutoSave = 2 /\ closed = {1}
  /\ \E t \in Admins : adm[t].pc = "stopSave"

\* ------------------------------------------------------------ properties: the readers
\* C35: no step of CheckQuota or GetQuotaStatus, for any key and model and
\* whatever the verdict, changes the ledger (its key set included) or the
\* policy store.
C35_ReadOnly ==
  [][CheckQuota(Checkers, Keys) \/ GetQuotaStatus(Checkers, Keys) =>
       usage' = usage /\ policies' = policies]_vars

\* A denied check, or a status query, of a key under a policy that has never
\* been used: the ledger still has no row for it.
C35_Witness ==
  \E t \in Checkers :
    /\ chk[t].policy # Nil /\ usage[chk[t].key] = Nil /\ chk[t].usage.kind = "nil"
    /\ \/ chk[t].pc = "done" /\ ~chk[t].res.allowed
       \/ chk[t].pc = "statusDone" /\ ~chk[t].status.has_usage

\* ------------------------------------------------------------ properties: a denied request
\* The request of thread t has been denied by CheckQuota.
DeniedRequest(t) ==
  chk[t].pc \in {"done", "handler", "post", "update", "finished"} /\ ~chk[t].res.allowed

\* C36: a denied request never reaches the handler, ends with a status >= 400,
\* makes no UpdateUsage call and leaves the ledger as it is, in either order of
\* the two middlewares.
C36_DeniedLeavesLedger ==
  /\ [](\A t \in Checkers :
          DeniedRequest(t) =>
            /\ chk[t].pc \notin {"handler", "update"}
            /\ chk[t].http.updates = 0
            /\ upd[Worker(t)].pc = "idle"
            /\ chk[t].pc \in {"post", "finished"} => chk[t].http.status >= 400)
  /\ [][\A t \in Checkers : DeniedRequest(t) => usage' = usage]_vars

\* A request denied for its token budget is over, with status 403, and the row
\* of its key counts the requests that came before.
C36_Witness ==
  \E t \in Checkers :
    /\ chk[t].pc = "finished" /\ chk[t].res.kind = "token_limit_exceeded"
    /\ chk[t].http.status = 403 /\ chk[t].http.updates = 0
    /\ usage[chk[t].key] # Nil /\ usage[chk[t].key].requests > 0

\* ------------------------------------------------------------ properties: unparsable expires_at
\* The policy has an expires_at that is neither RFC3339 nor YYYY-MM-DD.
Unparsable(p) == p # Nil /\ p.expiresAt = BadExpiry

\* C37: a policy whose expires_at is set but parses in neither format never
\* expires: IsExpired is false for it at every instant, and no check that read
\* it returns api_key_expired.
C37_UnparsableNeverExpires ==
  /\ \A k \in Keys :
       Unparsable(policies[k]) =>
         /\ HasExpiration(policies[k])
         /\ \A t \in Instants : ~IsExpired(policies[k], t)
  /\ \A t \in Checkers :
       chk[t].pc = "done" /\ Unparsable(chk[t].policy)
         => chk[t].res.kind # "api_key_expired" /\ chk[t].res.allowed

\* A finished check, at an instant after day 0, of a key whose policy has an
\* unparsable expires_at: it is allowed.
C37_Witness ==
  \E t \in Checkers :
    /\ chk[t].pc = "done" /\ Unparsable(chk[t].policy)
    /\ chk[t].seenNow.set /\ chk[t].seenNow.v >= DayLen
    /\ chk[t].res.allowed

====
